---- MODULE Spec2Model ----
(***************************************************************************)
(* Model of the caching / fetching / classification core of the            *)
(* us-tpd-tracker pipeline (pipeline/cache.py, pipeline/scrapers/base.py,  *)
(* pipeline/classifier.py, pipeline/main.py).                              *)
(*                                                                         *)
(* Text is a sequence of characters over a small alphabet; "CR" and "LF"   *)
(* stand for '\r' and '\n'.  Time is counted in ticks of half a second.    *)
(***************************************************************************)
EXTENDS Integers, Sequences, FiniteSets, TLC

VARIABLES
    fs,                  \* the cache files on disk: path -> file content
    trace,               \* the cache-store operations performed so far (newest last)
    now,                 \* time.time(), in ticks
    _last_request_time,  \* BaseScraper._last_request_time: host -> time
    pc,                  \* position of the (single) thread of control
    frame,               \* locals of the running fetch_page / fetch_and_extract call
    ret,                 \* result of the last operation that returned
    obs,                 \* effects of the running / last top-level call
    calls,               \* number of top-level operations started
    hist,                \* what went over the wire and who wrote which cache file
    classifier,          \* the Classifier object of the running process, if any
    run                  \* main(): its arguments, its locals and where it stands

vars == <<fs, trace, now, _last_request_time, pc, frame, ret, obs, calls, hist, classifier, run>>

\* Optional[...] values: None, or Some(v) for a value v
None == [none |-> TRUE]
Some(v) == [some |-> v]

-----------------------------------------------------------------------------
(* Bounds                                                                  *)

MaxOps == 3        \* cache-store operations in one behaviour of SpecCache
MaxCalls == 2      \* fetch_page / fetch_and_extract calls in one behaviour
MaxClassify == 2   \* classify_page calls in one behaviour
MaxRuns == 2       \* runs of main() in one behaviour
MaxFailures == 1   \* 5xx answers of the site in one behaviour
StartTime == 100   \* time.time() when the scraper is constructed
MaxLen == 4        \* characters of a short text given to truncate_text
MaxBudget == 3     \* max_tokens given with a short text
MaxChildren == 3   \* child entries of a result given to _parse_result
MaxNewCalls == 3   \* new_api_calls of the classifier whose cost is estimated
MaxCounter == 2    \* cache_hits and prefilter_skipped of that classifier
MaxCandidates == 3 \* candidates that the fetch phase hands to the classification loop
MaxTitle == 2      \* characters of a generated title given to passes_prefilter
MaxHashLen == 2    \* characters of a generated string given to url_hash and content_hash

-----------------------------------------------------------------------------
(* pipeline/config.py                                                      *)

PAGE_CACHE_DIR == "pages"
CLASSIFICATION_CACHE_DIR == "classifications"

REQUEST_DELAY_SECONDS == 3     \* 1.5 s
BACKOFF_START_SECONDS == 20    \* 10 s
MAX_RETRIES == 3

-----------------------------------------------------------------------------
(* Text files: Path.write_text / Path.read_text                            *)

\* os.linesep of the platform the pipeline runs on (POSIX)
os_linesep == <<"LF">>

RECURSIVE TranslateOnWrite(_)
\* text-mode write with newline=None: every '\n' becomes os.linesep
TranslateOnWrite(s) ==
    IF s = <<>> THEN <<>>
    ELSE (IF Head(s) = "LF" THEN os_linesep ELSE <<Head(s)>>) \o TranslateOnWrite(Tail(s))

RECURSIVE UniversalNewlines(_)
\* text-mode read with newline=None: '\r\n' and a lone '\r' are both read as '\n'
UniversalNewlines(s) ==
    IF s = <<>> THEN <<>>
    ELSE IF Head(s) = "CR"
         THEN IF Len(s) >= 2 /\ s[2] = "LF"
              THEN <<"LF">> \o UniversalNewlines(Tail(Tail(s)))
              ELSE <<"LF">> \o UniversalNewlines(Tail(s))
         ELSE <<Head(s)>> \o UniversalNewlines(Tail(s))

\* Path.write_text(content, encoding="utf-8"): the bytes that end up in the file
write_text(content) == TranslateOnWrite(content)

\* Path.read_text(encoding="utf-8"): the string the caller gets
read_text(bytes) == UniversalNewlines(bytes)

-----------------------------------------------------------------------------
(* JSON: json.dumps / json.loads                                           *)
(* A Python value is a tagged tuple: <<"dict", pairs>> with the pairs      *)
(* <<key, value>> in insertion order, <<"list", items>>, <<"str", s>>,     *)
(* <<"int", n>>, <<"true">>, <<"false">> or <<"null">>.  A dict key is       *)
(* <<"str", s>> or <<"int", digits>>.  A string is the sequence of its     *)
(* characters (or of its parts).                                           *)

\* json.dumps coerces a non-string key to its string form
JsonKey(k) == <<"str", k[2]>>

RECURSIVE json_dumps(_)
\* json.dumps(value, indent=2): the document
json_dumps(v) ==
    IF v[1] = "dict"
    THEN <<"object", [i \in 1..Len(v[2]) |->
                         <<"member", JsonKey(v[2][i][1]), json_dumps(v[2][i][2])>>]>>
    ELSE IF v[1] = "list"
    THEN <<"array", [i \in 1..Len(v[2]) |-> json_dumps(v[2][i])]>>
    ELSE v

RECURSIVE json_loads(_)
\* json.loads(text): the value of the document
json_loads(doc) ==
    IF doc[1] = "object"
    THEN <<"dict", [i \in 1..Len(doc[2]) |-> <<doc[2][i][2], json_loads(doc[2][i][3])>>]>>
    ELSE IF doc[1] = "array"
    THEN <<"list", [i \in 1..Len(doc[2]) |-> json_loads(doc[2][i])]>>
    ELSE doc

-----------------------------------------------------------------------------
(* pipeline/cache.py                                                       *)

\* sha256(content.encode()).hexdigest()[:16]; distinct inputs of the bounded
\* universe have distinct digests
content_hash(content) == <<"sha256_16", content>>

url_hash(url) == <<"sha256_16", url>>

PageFile(cache_dir, url) == <<cache_dir, url_hash(url), ".html">>

ClassificationFile(cache_dir, raw_text) == <<cache_dir, content_hash(raw_text), ".json">>

Exists(files, path) == path \in DOMAIN files

\* write a file, creating or overwriting it
WriteFile(files, path, bytes) ==
    [p \in (DOMAIN files) \cup {path} |-> IF p = path THEN bytes ELSE files[p]]


\* the entries of the file system: <<dir, stem, suffix>> is the file
\* dir/stem+suffix, <<dir, subdir, stem, suffix>> a file in a subdirectory
\* of dir, <<dir, subdir>> a subdirectory made with nothing in it and <<dir>>
\* the directory itself, made with nothing in it
is_file(path) == Len(path) = 3

\* Path.exists for a directory: it was made, or it holds something
DirExists(files, cache_dir) == \E p \in DOMAIN files : p[1] = cache_dir

\* cache_dir.glob("*"): the files and the subdirectories directly in it
Glob(files, cache_dir) ==
    {p \in DOMAIN files : p[1] = cache_dir /\ Len(p) = 3}
        \cup {<<p[1], p[2]>> : p \in {q \in DOMAIN files : q[1] = cache_dir /\ Len(q) \in {2, 4}}}

\* f.unlink() for every f of a set
Unlink(files, deleted) == [p \in (DOMAIN files) \ deleted |-> files[p]]

clear_cache_KeepsFiles(files, cache_dir) ==
    [files |-> files, count |-> Cardinality({f \in Glob(files, cache_dir) : is_file(f)})]

clear_cache_Recursive(files, cache_dir) ==
    LET deleted == {p \in DOMAIN files : p[1] = cache_dir /\ Len(p) >= 3}
    IN  [files |-> Unlink(files, deleted), count |-> Cardinality(deleted)]

\* clear_cache(cache_dir): the file system after it and the count returned;
\* the directory, when there is one, is still there
clear_cache(files, cache_dir) ==
    IF DirExists(files, cache_dir)
    THEN LET deleted == {f \in Glob(files, cache_dir) : is_file(f)}
             left == Unlink(files, deleted)
         IN  [files |-> IF DirExists(left, cache_dir) THEN left
                        ELSE WriteFile(left, <<cache_dir>>, <<>>),
              count |-> Cardinality(deleted)]
    ELSE [files |-> files, count |-> 0]
get_cached_page_Miss(files, cache_dir, url) == None

get_cached_page(files, cache_dir, url) ==
    LET cache_file == PageFile(cache_dir, url)
    IN  IF Exists(files, cache_file) THEN Some(read_text(files[cache_file])) ELSE None

save_cached_page(files, cache_dir, url, content) ==
    WriteFile(files, PageFile(cache_dir, url), write_text(content))

get_cached_classification_Miss(files, cache_dir, raw_text) == None

get_cached_classification(files, cache_dir, raw_text) ==
    LET cache_file == ClassificationFile(cache_dir, raw_text)
    IN  IF Exists(files, cache_file) THEN Some(json_loads(files[cache_file])) ELSE None

\* only results marked relevant are written
save_cached_classification_RelevantOnly(files, cache_dir, raw_text, result) ==
    IF result[1] = "dict" /\ \E m \in 1..Len(result[2]) : result[2][m] = <<<<"str", "is_tpd">>, <<"true">>>>
    THEN WriteFile(files, ClassificationFile(cache_dir, raw_text), json_dumps(result))
    ELSE files
save_cached_classification_Skipped(files, cache_dir, raw_text, result) == files
save_cached_classification(files, cache_dir, raw_text, result) ==
    WriteFile(files, ClassificationFile(cache_dir, raw_text), json_dumps(result))

-----------------------------------------------------------------------------
(* Requests and canonical JSON                                             *)
(* A URL is the string scheme + host + path, kept as its three parts; a    *)
(* longer string is the sequence of its parts.                             *)

\* urlparse(url).hostname; every URL of the universe has one
Hostname(url) == url[2]

\* the keys that occur in params / json_body dicts, in sorted order
KeyOrder == <<"page", "term">>

KeyRank(k) == CHOOSE i \in 1..Len(KeyOrder) : KeyOrder[i] = k[2]

\* the members of an object ordered by key
SortMembers(members) ==
    LET Pos(j) == 1 + Cardinality({i \in 1..Len(members) :
                                     KeyRank(members[i][2]) < KeyRank(members[j][2])})
    IN  [n \in 1..Len(members) |-> members[CHOOSE j \in 1..Len(members) : Pos(j) = n]]

\* json.dumps(d, sort_keys=True) of a dict of scalars
json_dumps_sort_keys(d) == <<"object", SortMembers(json_dumps(d)[2])>>

\* truth value of an Optional[dict]: None and {} are false
Truthy(d) == d # None /\ d.some[2] # <<>>

\* fetch_page, "Build cache key"
BuildCacheKey(url, json_body, params) ==
    LET k0 == url
        k1 == IF Truthy(json_body)
              THEN url \o <<"|", json_dumps_sort_keys(json_body.some)>>
              ELSE k0
    IN  IF Truthy(params)
        THEN url \o <<"?", json_dumps_sort_keys(params.some)>>
        ELSE k1

-----------------------------------------------------------------------------
(* pipeline/scrapers/base.py                                               *)

EXTRACTED_CACHE_DIR == "extracted"

ExtractedFile_InPages(url) == <<PAGE_CACHE_DIR, url_hash(url), ".txt">>

ExtractedFile(url) == <<EXTRACTED_CACHE_DIR, url_hash(url), ".txt">>

_get_extracted_text(files, url) ==
    LET cache_file == ExtractedFile(url)
    IN  IF Exists(files, cache_file) THEN Some(read_text(files[cache_file])) ELSE None

_save_extracted_text_Skipped(files, url, text) == files

_save_extracted_text(files, url, text) ==
    WriteFile(files, ExtractedFile(url), write_text(text))

IsSpace(c) == c \in {"CR", "LF", " "}

RECURSIVE LStrip(_)
LStrip(s) == IF s # <<>> /\ IsSpace(Head(s)) THEN LStrip(Tail(s)) ELSE s

RECURSIVE RStrip(_)
RStrip(s) == IF s # <<>> /\ IsSpace(s[Len(s)]) THEN RStrip(SubSeq(s, 1, Len(s) - 1)) ELSE s

\* html is a sequence of characters and elements: "<s>" is a script / style /
\* nav / header / footer / aside / iframe / noscript / form element with all
\* it contains, "<a1>", "<a2>", "<a3>" are links (an <a> element with its
\* href and its text)
Anchors == {"<a1>", "<a2>", "<a3>"}

AnchorTitle(a) ==
    IF a = "<a1>" THEN <<"K", "o", "r", "e", "a", " ", "A", "I", " ", "d", "e", "a", "l">>
    ELSE IF a = "<a2>" THEN <<"W", "e", "a", "t", "h", "e", "r", " ", "R", "e", "p", "o", "r", "t">>
    ELSE <<"H", "o", "m", "e">>

\* a URL is the sequence of its parts: scheme, host, then the path
AnchorHref(a) ==
    IF a = "<a1>" THEN <<"/", "fact-sheets", "/", "2025", "/", "10", "/", "korea", "/">>
    ELSE IF a = "<a2>" THEN <<"/", "articles", "/", "weather", "/">>
    ELSE <<"/">>

IsElement(c) == c = "<s>" \/ c \in Anchors

RECURSIVE TextNodes(_)
\* the text nodes of the document once the non-content elements are removed
TextNodes(html) ==
    IF html = <<>> THEN <<>>
    ELSE IF Head(html) = "<s>" THEN TextNodes(Tail(html))
    ELSE IF Head(html) \in Anchors THEN <<AnchorTitle(Head(html))>> \o TextNodes(Tail(html))
    ELSE LET n == CHOOSE i \in 1..Len(html) :
                      /\ \A j \in 1..i : ~IsElement(html[j])
                      /\ (i = Len(html) \/ IsElement(html[i + 1]))
         IN  <<SubSeq(html, 1, n)>> \o TextNodes(SubSeq(html, n + 1, Len(html)))

RECURSIVE JoinLines(_)
\* "\n".join(parts)
JoinLines(parts) ==
    IF parts = <<>> THEN <<>>
    ELSE IF Len(parts) = 1 THEN parts[1]
    ELSE parts[1] \o <<"LF">> \o JoinLines(Tail(parts))

RECURSIVE CollapseBlankLines(_)
\* re.sub(r"\n{3,}", "\n\n", text)
CollapseBlankLines(s) ==
    IF Len(s) >= 3 /\ s[1] = "LF" /\ s[2] = "LF" /\ s[3] = "LF"
    THEN CollapseBlankLines(Tail(s))
    ELSE IF s = <<>> THEN <<>>
    ELSE <<Head(s)>> \o CollapseBlankLines(Tail(s))

\* get_text(separator="\n", strip=True), the blank lines collapsed, stripped
extract_text_from_html(html) ==
    LET nodes == TextNodes(html)
        stripped == [i \in 1..Len(nodes) |-> RStrip(LStrip(nodes[i]))]
        text == JoinLines(SelectSeq(stripped, LAMBDA t : t # <<>>))
    IN  RStrip(LStrip(CollapseBlankLines(text)))

_rate_limit_NoSleep(table, t, host) ==
    [slept |-> 0,
     now   |-> t,
     table |-> [h \in (DOMAIN table) \cup {host} |-> IF h = host THEN t ELSE table[h]]]

\* BaseScraper._rate_limit(host) called at time t with the table as given:
\* how long it sleeps, the time when it returns and the table it leaves
_rate_limit(table, t, host) ==
    LET last == IF host \in DOMAIN table THEN table[host] ELSE 0
        elapsed == t - last
        sleep_time == IF elapsed < REQUEST_DELAY_SECONDS
                      THEN REQUEST_DELAY_SECONDS - elapsed
                      ELSE 0
        t1 == t + sleep_time
    IN  [slept |-> sleep_time,
         now   |-> t1,
         table |-> [h \in (DOMAIN table) \cup {host} |-> IF h = host THEN t1 ELSE table[h]]]

Backoff_FromOne(attempt) == BACKOFF_START_SECONDS * (2 ^ (attempt + 1))

\* BACKOFF_START_SECONDS * (2 ** attempt)
Backoff(attempt) == BACKOFF_START_SECONDS * (2 ^ attempt)

LoopContinues_OneMore(attempt) == attempt + 1 <= MAX_RETRIES

\* for attempt in range(MAX_RETRIES): is there an iteration after this one
LoopContinues(attempt) == attempt + 1 < MAX_RETRIES

\* Response.raise_for_status() raises HTTPStatusError
RaisesForStatus(status_code) == ~(200 <= status_code /\ status_code < 300)

Classify_ClientErrorFirst(status_code) ==
    IF status_code = 404 THEN "not_found"
    ELSE IF 400 <= status_code /\ status_code < 500 THEN "client_error"
    ELSE IF status_code = 429 THEN "rate_limited"
    ELSE IF RaisesForStatus(status_code) THEN "http_error"
    ELSE "ok"

\* the branch of fetch_page's attempt that a response with this status takes
Classify(status_code) ==
    IF status_code = 429 THEN "rate_limited"
    ELSE IF status_code = 404 THEN "not_found"
    ELSE IF 400 <= status_code /\ status_code < 500 THEN "client_error"
    ELSE IF RaisesForStatus(status_code) THEN "http_error"
    ELSE "ok"

\* what the server (or the transport) answers to one request
Response(status_code, text) == [kind |-> "response", status_code |-> status_code, text |-> text]
TransportError == [kind |-> "error", status_code |-> 0, text |-> <<>>]

IdleFrame == [op |-> "none"]

\* the effects of one top-level call, counted from its start
NewObs(op, request) ==
    [op |-> op, request |-> request, hit |-> FALSE, text_hit |-> FALSE, requests |-> 0,
     responses |-> <<>>, backoff |-> <<>>, rate_slept |-> 0, page_writes |-> 0,
     parses |-> 0, text_writes |-> 0, fetches |-> 0]

NoObs == NewObs("none", None)

Request(url, method, json_body, params) ==
    [url |-> url, method |-> method, json_body |-> json_body, params |-> params]

\* a failure is cached as an empty page
FetchPageReturn_CachesFailure(value, files, o, h, via) ==
    /\ pc' = "idle"
    /\ frame' = IdleFrame
    /\ IF value = None
       THEN /\ ret' = None
            /\ fs' = save_cached_page(files, PAGE_CACHE_DIR, frame.cache_key, <<>>)
            /\ obs' = o
            /\ hist' = h
       ELSE IF via = None
            THEN /\ ret' = value
                 /\ fs' = files
                 /\ obs' = o
                 /\ hist' = h
            ELSE LET text == extract_text_from_html(value.some)
                 IN  /\ fs' = _save_extracted_text(files, via.some, text)
                     /\ ret' = Some(text)
                     /\ obs' = [o EXCEPT !.parses = @ + 1, !.text_writes = @ + 1]
                     /\ hist' = [h EXCEPT !.parsed = Append(@, via.some),
                                           !.html_parses = @ + 1]
\* fetch_page returns value to its caller; via is None for a direct call and
\* Some(url) when fetch_and_extract(url) made the call, which then goes on
\* (parse, save the extracted text, return it) in the same step
FetchPageReturn(value, files, o, h, via) ==
    /\ pc' = "idle"
    /\ frame' = IdleFrame
    /\ IF via = None
       THEN /\ ret' = value
            /\ fs' = files
            /\ obs' = o
            /\ hist' = h
       ELSE IF value = None
            THEN /\ ret' = None
                 /\ fs' = files
                 /\ obs' = o
                 /\ hist' = h
            ELSE LET text == extract_text_from_html(value.some)
                 IN  /\ fs' = _save_extracted_text(files, via.some, text)
                     /\ ret' = Some(text)
                     /\ obs' = [o EXCEPT !.parses = @ + 1, !.text_writes = @ + 1]
                     /\ hist' = [h EXCEPT !.parsed = Append(@, via.some),
                                           !.html_parses = @ + 1]

FetchPageEnter_NoCacheCheck(request, o, via) ==
    /\ frame' = [op |-> "fetch_page", request |-> request,
                 cache_key |-> BuildCacheKey(request.url, request.json_body, request.params),
                 host |-> Hostname(request.url), attempt |-> 0, via |-> via]
    /\ pc' = "send"
    /\ obs' = [o EXCEPT !.fetches = @ + 1]
    /\ UNCHANGED <<fs, ret, _last_request_time, hist>>

\* fetch_page up to the first attempt: build the key, check the page cache
FetchPageEnter(request, o, via) ==
    LET cache_key == BuildCacheKey(request.url, request.json_body, request.params)
        cached == get_cached_page(fs, PAGE_CACHE_DIR, cache_key)
        o1 == [o EXCEPT !.fetches = @ + 1]
    IN  IF cached # None
        THEN /\ FetchPageReturn(cached, fs, [o1 EXCEPT !.hit = TRUE], hist, via)
             /\ UNCHANGED _last_request_time
        ELSE /\ frame' = [op |-> "fetch_page", request |-> request,
                          cache_key |-> cache_key, host |-> Hostname(request.url),
                          attempt |-> 0, via |-> via]
             /\ pc' = "send"
             /\ obs' = o1
             /\ UNCHANGED <<fs, ret, _last_request_time, hist>>

\* a call of fetch_page(url, method, json_body, params), gap ticks after the
\* previous operation returned
fetch_page(request, gap) ==
    /\ pc = "idle"
    /\ calls < MaxCalls
    /\ calls' = calls + 1
    /\ now' = now + gap
    /\ FetchPageEnter(request, NewObs("fetch_page", request), None)
    /\ UNCHANGED <<trace, classifier, run>>

\* fetch_and_extract up to the first attempt: check the extracted-text
\* cache, then fetch_page
FetchAndExtractEnter(url) ==
    LET request == Request(url, "GET", None, None)
        o == NewObs("fetch_and_extract", request)
        cached_text == _get_extracted_text(fs, url)
    IN  IF cached_text # None
        THEN /\ ret' = cached_text
             /\ obs' = [o EXCEPT !.text_hit = TRUE]
             /\ UNCHANGED <<fs, pc, frame, _last_request_time, hist>>
        ELSE FetchPageEnter(request, o, Some(url))

\* a call of fetch_and_extract(url)
fetch_and_extract(url, gap) ==
    /\ pc = "idle"
    /\ calls < MaxCalls
    /\ calls' = calls + 1
    /\ now' = now + gap
    /\ FetchAndExtractEnter(url)
    /\ UNCHANGED <<trace, classifier, run>>

\* the head of one attempt: _rate_limit(host), then client.post / client.get
SendRequest ==
    /\ pc = "send"
    /\ LET host == frame.host
           rl == _rate_limit(_last_request_time, now, host)
           rq == frame.request
           wire == IF rq.method = "POST" /\ Truthy(rq.json_body)
                   THEN [verb |-> "POST", url |-> rq.url, json |-> rq.json_body, params |-> None]
                   ELSE [verb |-> "GET", url |-> rq.url, json |-> None, params |-> rq.params]
       IN  /\ now' = rl.now
           /\ _last_request_time' = rl.table
           /\ obs' = [obs EXCEPT !.requests = @ + 1, !.rate_slept = @ + rl.slept]
           /\ hist' = [hist EXCEPT
                  !.requests = @ + 1,
                  !.sent = [h \in (DOMAIN hist.sent) \cup {host} |->
                               IF h = host THEN rl.now ELSE hist.sent[h]],
                  !.last_send = Some([host |-> host, wire |-> wire, at |-> rl.now,
                                      slept |-> rl.slept,
                                      elapsed |-> IF host \in DOMAIN hist.sent
                                                  THEN Some(now - hist.sent[host])
                                                  ELSE None])]
    /\ pc' = "await"
    /\ UNCHANGED <<fs, trace, frame, ret, calls, classifier, run>>

\* the rest of one attempt: the response (or the transport's exception) is
\* handled, and the loop goes on to the next attempt or fetch_page returns
ReceiveResponse(resp) ==
    /\ pc = "await"
    /\ LET attempt == frame.attempt
           o == [obs EXCEPT !.responses = Append(@, resp)]
           class == IF resp.kind = "error" THEN "http_error" ELSE Classify(resp.status_code)
           h0 == [hist EXCEPT !.non2xx = IF class = "ok" THEN @ ELSE @ + 1,
                              !.http_5xx = IF resp.kind = "response" /\ resp.status_code >= 500
                                           THEN @ + 1 ELSE @]
           \* time.sleep(wait), then the next iteration or the end of the loop
           Retry(wait) ==
               /\ now' = now + wait
               /\ LET o1 == IF wait > 0 THEN [o EXCEPT !.backoff = Append(@, wait)] ELSE o
                  IN  IF LoopContinues(attempt)
                      THEN /\ frame' = [frame EXCEPT !.attempt = attempt + 1]
                           /\ pc' = "send"
                           /\ obs' = o1
                           /\ hist' = h0
                           /\ UNCHANGED <<fs, ret>>
                      ELSE FetchPageReturn(None, fs, o1, h0, frame.via)
           \* except httpx.HTTPError
           OnHTTPError == Retry(IF attempt < MAX_RETRIES - 1 THEN Backoff(attempt) ELSE 0)
       IN  IF class = "http_error"
           THEN OnHTTPError
           ELSE IF class = "rate_limited"
           THEN Retry(Backoff(attempt))
           ELSE IF class \in {"not_found", "client_error"}
           THEN /\ FetchPageReturn(None, fs, o, h0, frame.via)
                /\ UNCHANGED now
           ELSE LET content == resp.text
                    cache_file == PageFile(PAGE_CACHE_DIR, frame.cache_key)
                IN  /\ FetchPageReturn(Some(content),
                                       save_cached_page(fs, PAGE_CACHE_DIR, frame.cache_key, content),
                                       [o EXCEPT !.page_writes = @ + 1],
                                       [h0 EXCEPT !.writer =
                                           [p \in (DOMAIN hist.writer) \cup {cache_file} |->
                                               IF p = cache_file THEN frame.request
                                               ELSE hist.writer[p]]],
                                       frame.via)
                    /\ UNCHANGED now
    /\ UNCHANGED <<trace, _last_request_time, calls, classifier, run>>

-----------------------------------------------------------------------------
(* Python strings                                                          *)

UpperCase == <<"A", "B", "C", "D", "E", "F", "G", "H", "I", "J", "K", "L", "M", "N", "O", "P", "Q", "R", "S", "T", "U", "V", "W", "X", "Y", "Z">>
LowerCase == <<"a", "b", "c", "d", "e", "f", "g", "h", "i", "j", "k", "l", "m", "n", "o", "p", "q", "r", "s", "t", "u", "v", "w", "x", "y", "z">>

\* str.lower() of one character
LowerChar(c) ==
    IF \E i \in 1..Len(UpperCase) : UpperCase[i] = c
    THEN LowerCase[CHOOSE i \in 1..Len(UpperCase) : UpperCase[i] = c]
    ELSE c

\* str.lower()
Lower(s) == [i \in 1..Len(s) |-> LowerChar(s[i])]

\* sub in s
Contains(s, sub) == \E i \in 0..(Len(s) - Len(sub)) : SubSeq(s, i + 1, i + Len(sub)) = sub

\* s[:n]
Take(s, n) == SubSeq(s, 1, IF n < Len(s) THEN n ELSE Len(s))

\* s.strip()
Strip(s) == RStrip(LStrip(s))

RECURSIVE Split(_)
\* s.split(): the words of s, separated by runs of whitespace; s is cut at
\* a whitespace character near its middle and the words of the two parts
\* are put together
Split(s) ==
    LET spaces == {i \in 1..Len(s) : IsSpace(s[i])}
        mid == (Len(s) + 1) \div 2
    IN  IF s = <<>> THEN <<>>
        ELSE IF spaces = {} THEN <<s>>
        ELSE LET m == IF \E i \in spaces : i >= mid
                      THEN CHOOSE i \in spaces : i >= mid /\ \A j \in mid..(i - 1) : j \notin spaces
                      ELSE CHOOSE i \in spaces : \A j \in spaces : j <= i
             IN  Split(SubSeq(s, 1, m - 1)) \o Split(SubSeq(s, m + 1, Len(s)))

RECURSIVE SplitLines(_)
\* s.split("\n")
SplitLines(s) ==
    IF \E i \in 1..Len(s) : s[i] = "LF"
    THEN LET n == CHOOSE i \in 1..Len(s) : s[i] = "LF" /\ \A j \in 1..(i - 1) : s[j] # "LF"
         IN  <<SubSeq(s, 1, n - 1)>> \o SplitLines(SubSeq(s, n + 1, Len(s)))
    ELSE <<s>>

RECURSIVE Join(_, _)
\* sep.join(parts)
Join(sep, parts) ==
    IF parts = <<>> THEN <<>>
    ELSE IF Len(parts) = 1 THEN parts[1]
    ELSE LET h == Len(parts) \div 2
         IN  Join(sep, SubSeq(parts, 1, h)) \o sep \o Join(sep, SubSeq(parts, h + 1, Len(parts)))

DigitChars == <<"0", "1", "2", "3", "4", "5", "6", "7", "8", "9">>

RECURSIVE Digits(_)
\* str(n) for n >= 0
Digits(n) ==
    IF n < 10 THEN <<DigitChars[n + 1]>>
    ELSE Digits(n \div 10) \o <<DigitChars[(n % 10) + 1]>>

Pad3_NoPad(n) == Digits(n)

Pad3_One(n) == <<"0", "0", "1">>
\* f"{n:03d}"
Pad3(n) ==
    LET d == Digits(n)
    IN  IF Len(d) >= 3 THEN d ELSE [i \in 1..(3 - Len(d)) |-> "0"] \o d

-----------------------------------------------------------------------------
(* hashlib.sha256(s.encode()).hexdigest()                                  *)
(* A 32-bit word is the pair <<high half, low half>> of its 16-bit halves; *)
(* a byte is a number in 0..255.                                           *)

RECURSIVE Xor16(_, _)
\* a ^ b for 16-bit numbers
Xor16(a, b) ==
    IF a = 0 THEN b ELSE IF b = 0 THEN a
    ELSE 2 * Xor16(a \div 2, b \div 2) + ((a + b) % 2)

RECURSIVE And16(_, _)
\* a & b for 16-bit numbers
And16(a, b) ==
    IF a = 0 \/ b = 0 THEN 0
    ELSE 2 * And16(a \div 2, b \div 2) + ((a % 2) * (b % 2))

XorW(x, y) == <<Xor16(x[1], y[1]), Xor16(x[2], y[2])>>
AndW(x, y) == <<And16(x[1], y[1]), And16(x[2], y[2])>>
NotW(x) == <<65535 - x[1], 65535 - x[2]>>

\* addition modulo 2^32
AddW(x, y) ==
    LET lo == x[2] + y[2]
        hi == x[1] + y[1] + (lo \div 65536)
    IN  <<hi % 65536, lo % 65536>>

\* rotation to the right by n bits, 0 < n < 32
RotR(x, n) ==
    LET y == IF n >= 16 THEN <<x[2], x[1]>> ELSE x
        m == n % 16
        p == 2 ^ m
        q == 2 ^ (16 - m)
    IN  IF m = 0 THEN y
        ELSE <<(y[1] \div p) + ((y[2] % p) * q), (y[2] \div p) + ((y[1] % p) * q)>>

\* shift to the right by n bits, 0 < n < 16
ShR(x, n) ==
    LET p == 2 ^ n
        q == 2 ^ (16 - n)
    IN  <<x[1] \div p, (x[2] \div p) + ((x[1] % p) * q)>>

\* the first 32 bits of the fractional parts of the cube roots of the first
\* 64 primes
SHA256_K ==
    << <<17034, 12184>>, <<28983, 17553>>, <<46528, 64463>>, <<59829, 56229>>,
       <<14678, 49755>>, <<23025, 4593>>, <<37439, 33444>>, <<43804, 24277>>,
       <<55303, 43672>>, <<4739, 23297>>, <<9265, 34238>>, <<21772, 32195>>,
       <<29374, 23924>>, <<32990, 45566>>, <<39900, 1703>>, <<49563, 61812>>,
       <<58523, 27073>>, <<61374, 18310>>, <<4033, 40390>>, <<9228, 41420>>,
       <<11753, 11375>>, <<19060, 33962>>, <<23728, 43484>>, <<30457, 35034>>,
       <<38974, 20818>>, <<43057, 50797>>, <<45059, 10184>>, <<48985, 32711>>,
       <<50912, 3059>>, <<54695, 37191>>, <<1738, 25425>>, <<5161, 10599>>,
       <<10167, 2693>>, <<11803, 8504>>, <<19756, 28156>>, <<21304, 3347>>,
       <<25866, 29524>>, <<30314, 2747>>, <<33218, 51502>>, <<37490, 11397>>,
       <<41663, 59553>>, <<43034, 26187>>, <<49739, 35696>>, <<51052, 20899>>,
       <<53650, 59417>>, <<54937, 1572>>, <<62478, 13701>>, <<4202, 41072>>,
       <<6564, 49430>>, <<7735, 27656>>, <<10056, 30540>>, <<13488, 48309>>,
       <<14620, 3251>>, <<20184, 43594>>, <<23452, 51791>>, <<26670, 28659>>,
       <<29839, 33518>>, <<30885, 25455>>, <<33992, 30740>>, <<36039, 520>>,
       <<37054, 65530>>, <<42064, 27883>>, <<48889, 41975>>, <<50801, 30962>> >>

\* the first 32 bits of the fractional parts of the square roots of the
\* first 8 primes
SHA256_H0 ==
    << <<27145, 58983>>, <<47975, 44677>>, <<15470, 62322>>, <<42319, 62778>>,
       <<20750, 21119>>, <<39685, 26764>>, <<8067, 55723>>, <<23520, 52505>> >>

\* the message followed by the bit 1, zero bits up to 56 modulo 64 bytes, and
\* the length of the message in bits as 8 bytes
Sha256Pad(bytes) ==
    LET len == Len(bytes)
        zeros == (119 - (len % 64)) % 64
        bits == 8 * len
    IN  bytes \o <<128>> \o [i \in 1..zeros |-> 0]
              \o <<0, 0, 0, 0, (bits \div 16777216) % 256, (bits \div 65536) % 256,
                   (bits \div 256) % 256, bits % 256>>

\* the 16 words of the n-th block of 64 bytes
BlockWords(padded, n) ==
    [t \in 1..16 |->
        LET at == 64 * (n - 1) + 4 * (t - 1)
        IN  <<256 * padded[at + 1] + padded[at + 2], 256 * padded[at + 3] + padded[at + 4]>>]

SmallSigma0(x) == XorW(XorW(RotR(x, 7), RotR(x, 18)), ShR(x, 3))
SmallSigma1(x) == XorW(XorW(RotR(x, 17), RotR(x, 19)), ShR(x, 10))
BigSigma0(x) == XorW(XorW(RotR(x, 2), RotR(x, 13)), RotR(x, 22))
BigSigma1(x) == XorW(XorW(RotR(x, 6), RotR(x, 11)), RotR(x, 25))
Ch(x, y, z) == XorW(AndW(x, y), AndW(NotW(x), z))
Maj(x, y, z) == XorW(XorW(AndW(x, y), AndW(x, z)), AndW(y, z))

RECURSIVE Schedule(_)
\* the message schedule: 16 words extended to 64
Schedule(w) ==
    IF Len(w) >= 64 THEN w
    ELSE LET t == Len(w) + 1
         IN  Schedule(Append(w, AddW(AddW(SmallSigma1(w[t - 2]), w[t - 7]),
                                     AddW(SmallSigma0(w[t - 15]), w[t - 16]))))

\* one round on the working variables a..h
Sha256Round(v, k, w) ==
    LET t1 == AddW(AddW(AddW(v[8], BigSigma1(v[5])), AddW(Ch(v[5], v[6], v[7]), k)), w)
        t2 == AddW(BigSigma0(v[1]), Maj(v[1], v[2], v[3]))
    IN  <<AddW(t1, t2), v[1], v[2], v[3], AddW(v[4], t1), v[5], v[6], v[7]>>

RECURSIVE Sha256Rounds(_, _)
\* the working variables before the first round and after each of the 64
Sha256Rounds(vs, w) ==
    IF Len(vs) > 64 THEN vs
    ELSE LET t == Len(vs)
         IN  Sha256Rounds(Append(vs, Sha256Round(vs[t], SHA256_K[t], w[t])), w)

\* the hash value after one more block
Compress(h, words) ==
    LET v == Sha256Rounds(<<h>>, Schedule(words))[65]
    IN  [i \in 1..8 |-> AddW(h[i], v[i])]

RECURSIVE Sha256Blocks(_, _, _)
Sha256Blocks(h, padded, n) ==
    IF 64 * (n - 1) >= Len(padded) THEN h
    ELSE Sha256Blocks(Compress(h, BlockWords(padded, n)), padded, n + 1)

HexChars == <<"0", "1", "2", "3", "4", "5", "6", "7", "8", "9", "a", "b", "c", "d", "e", "f">>

\* the four hexadecimal digits of a 16-bit number
Hex16(n) ==
    <<HexChars[(n \div 4096) + 1], HexChars[((n \div 256) % 16) + 1],
      HexChars[((n \div 16) % 16) + 1], HexChars[(n % 16) + 1]>>

RECURSIVE HexWords(_)
HexWords(ws) ==
    IF ws = <<>> THEN <<>> ELSE Hex16(Head(ws)[1]) \o Hex16(Head(ws)[2]) \o HexWords(Tail(ws))

\* hashlib.sha256(bytes).hexdigest(): 64 hexadecimal digits
sha256_hexdigest(bytes) == HexWords(Sha256Blocks(SHA256_H0, Sha256Pad(bytes), 1))

\* ord(c) for the characters of the model, all of them ASCII
Ord(c) ==
    IF \E i \in 1..26 : UpperCase[i] = c THEN 64 + (CHOOSE i \in 1..26 : UpperCase[i] = c)
    ELSE IF \E i \in 1..26 : LowerCase[i] = c THEN 96 + (CHOOSE i \in 1..26 : LowerCase[i] = c)
    ELSE IF \E i \in 1..10 : DigitChars[i] = c THEN 47 + (CHOOSE i \in 1..10 : DigitChars[i] = c)
    ELSE IF c = " " THEN 32 ELSE IF c = "LF" THEN 10 ELSE IF c = "CR" THEN 13
    ELSE IF c = "." THEN 46 ELSE IF c = "/" THEN 47 ELSE IF c = ":" THEN 58
    ELSE IF c = "-" THEN 45 ELSE 36

\* str.encode() of a string of ASCII characters
Encode(s) == [i \in 1..Len(s) |-> Ord(s[i])]

Slice16_Whole(hex) == hex

\* hexdigest()[:16]
Slice16(hex) == Take(hex, 16)

\* content_hash(content) and url_hash(url) as the strings they are; in the
\* file names of the model <<"sha256_16", s>> stands for this string
content_hash_hex(content) == Slice16(sha256_hexdigest(Encode(content)))

url_hash_hex(url) == Slice16(sha256_hexdigest(Encode(url)))

-----------------------------------------------------------------------------
(* pipeline/config.py: watchlist, keywords, classification                 *)

COUNTRY_WATCHLIST ==
    << [key |-> <<"U", "K">>,
        names |-> << <<"U", "n", "i", "t", "e", "d", " ", "K", "i", "n", "g", "d", "o", "m">>,
                    <<"U", "K">>,
                    <<"U", ".", "K", ".">>,
                    <<"B", "r", "i", "t", "a", "i", "n">>,
                    <<"B", "r", "i", "t", "i", "s", "h">>,
                    <<"G", "r", "e", "a", "t", " ", "B", "r", "i", "t", "a", "i", "n">>,
                    <<"E", "n", "g", "l", "a", "n", "d">> >>,
        code |-> <<"G", "B", "R">>,
        formal_name |-> <<"U", "n", "i", "t", "e", "d", " ", "K", "i", "n", "g", "d", "o", "m", " ", "o", "f", " ", "G", "r", "e", "a", "t", " ", "B", "r", "i", "t", "a", "i", "n", " ", "a", "n", "d", " ", "N", "o", "r", "t", "h", "e", "r", "n", " ", "I", "r", "e", "l", "a", "n", "d">>],
       [key |-> <<"J", "a", "p", "a", "n">>,
        names |-> << <<"J", "a", "p", "a", "n">>,
                    <<"J", "a", "p", "a", "n", "e", "s", "e">>,
                    <<"J", "P", "N">> >>,
        code |-> <<"J", "P", "N">>,
        formal_name |-> <<"J", "a", "p", "a", "n">>],
       [key |-> <<"S", "o", "u", "t", "h", " ", "K", "o", "r", "e", "a">>,
        names |-> << <<"S", "o", "u", "t", "h", " ", "K", "o", "r", "e", "a">>,
                    <<"K", "o", "r", "e", "a">>,
                    <<"K", "o", "r", "e", "a", "n">>,
                    <<"R", "e", "p", "u", "b", "l", "i", "c", " ", "o", "f", " ", "K", "o", "r", "e", "a">>,
                    <<"R", "O", "K">>,
                    <<"R", ".", "O", ".", "K", ".">>,
                    <<"S", ".", " ", "K", "o", "r", "e", "a">> >>,
        code |-> <<"K", "O", "R">>,
        formal_name |-> <<"R", "e", "p", "u", "b", "l", "i", "c", " ", "o", "f", " ", "K", "o", "r", "e", "a">>] >>

TECH_KEYWORDS ==
    << <<"t", "e", "c", "h", "n", "o", "l", "o", "g", "y">>,
       <<"A", "I">>,
       <<"a", "r", "t", "i", "f", "i", "c", "i", "a", "l", " ", "i", "n", "t", "e", "l", "l", "i", "g", "e", "n", "c", "e">>,
       <<"s", "e", "m", "i", "c", "o", "n", "d", "u", "c", "t", "o", "r">>,
       <<"q", "u", "a", "n", "t", "u", "m">>,
       <<"6", "G">>,
       <<"b", "i", "o", "t", "e", "c", "h">>,
       <<"b", "i", "o", "t", "e", "c", "h", "n", "o", "l", "o", "g", "y">>,
       <<"n", "u", "c", "l", "e", "a", "r">>,
       <<"f", "u", "s", "i", "o", "n">>,
       <<"c", "y", "b", "e", "r">>,
       <<"d", "i", "g", "i", "t", "a", "l">>,
       <<"c", "h", "i", "p">>,
       <<"d", "a", "t", "a", " ", "c", "e", "n", "t", "e", "r">>,
       <<"c", "l", "o", "u", "d">>,
       <<"s", "o", "f", "t", "w", "a", "r", "e">>,
       <<"m", "a", "n", "u", "f", "a", "c", "t", "u", "r", "i", "n", "g">>,
       <<"c", "o", "m", "p", "u", "t", "i", "n", "g">>,
       <<"t", "e", "l", "e", "c", "o", "m">>,
       <<"t", "e", "l", "e", "c", "o", "m", "m", "u", "n", "i", "c", "a", "t", "i", "o", "n", "s">>,
       <<"r", "o", "b", "o", "t", "i", "c", "s">>,
       <<"s", "p", "a", "c", "e">> >>

DEAL_KEYWORDS ==
    << <<"p", "r", "o", "s", "p", "e", "r", "i", "t", "y">>,
       <<"t", "r", "a", "d", "e", " ", "d", "e", "a", "l">>,
       <<"p", "a", "r", "t", "n", "e", "r", "s", "h", "i", "p">>,
       <<"a", "g", "r", "e", "e", "m", "e", "n", "t">>,
       <<"i", "n", "v", "e", "s", "t", "m", "e", "n", "t">>,
       <<"b", "i", "l", "a", "t", "e", "r", "a", "l">>,
       <<"m", "e", "m", "o", "r", "a", "n", "d", "u", "m">>,
       <<"M", "O", "U">>,
       <<"c", "o", "m", "m", "i", "t", "m", "e", "n", "t">>,
       <<"c", "o", "n", "t", "r", "a", "c", "t">>,
       <<"d", "e", "a", "l">>,
       <<"c", "o", "o", "p", "e", "r", "a", "t", "i", "o", "n">>,
       <<"f", "r", "a", "m", "e", "w", "o", "r", "k">>,
       <<"p", "a", "c", "t">>,
       <<"a", "c", "c", "o", "r", "d">> >>

MAX_INPUT_TOKENS == 800

PREFILTER_KEYWORDS == TECH_KEYWORDS \o DEAL_KEYWORDS

-----------------------------------------------------------------------------
(* pipeline/models.py                                                      *)

DealStatus == { <<"A", "C", "T", "I", "V", "E">>,
                <<"P", "E", "N", "D", "I", "N", "G">>,
                <<"C", "O", "M", "P", "L", "E", "T", "E", "D">>,
                <<"C", "A", "N", "C", "E", "L", "L", "E", "D">>,
                <<"R", "E", "P", "O", "R", "T", "E", "D">> }

RawDeal(title, source_url, source_id, snippet, raw_date, source_name) ==
    [title |-> title, source_url |-> source_url, source_id |-> source_id,
     snippet |-> snippet, raw_date |-> raw_date, source_name |-> source_name]

\* CostOptimization(): the counters of a new classifier
CostOptimization == [prefilter_skipped |-> 0, cache_hits |-> 0, new_api_calls |-> 0]

\* field validation of the Deal model
IsStr(v) == v[1] = "str"
IsOptionalStr(v) == v[1] \in {"str", "null"}
IsOptionalInt(v) == v[1] \in {"int", "null"}
IsListOfStr(v) == v[1] = "list" /\ \A i \in 1..Len(v[2]) : IsStr(v[2][i])

-----------------------------------------------------------------------------
(* pipeline/classifier.py                                                  *)

passes_prefilter_Always(raw) == TRUE

passes_prefilter_CaseSensitive(raw) ==
    LET text == raw.title \o <<" ">> \o raw.snippet
    IN  \E i \in 1..Len(PREFILTER_KEYWORDS) : Contains(text, Lower(PREFILTER_KEYWORDS[i]))
passes_prefilter(raw) ==
    LET text == Lower(raw.title \o <<" ">> \o raw.snippet)
    IN  \E i \in 1..Len(PREFILTER_KEYWORDS) : Contains(text, Lower(PREFILTER_KEYWORDS[i]))

\* "$", "billion", "million", an em dash, a bullet, "-"
DetailMarkers == {<<"$">>, <<"b", "i", "l", "l", "i", "o", "n">>, <<"m", "i", "l", "l", "i", "o", "n">>, <<"EMDASH">>, <<"BULLET">>, <<"-">>}

truncate_text_NoFinalCut(text, max_tokens) ==
    LET words == Split(text)
    IN  IF Len(words) <= max_tokens THEN text
        ELSE Join(<<" ">>, Take(words, 500)) \o <<"LF", "LF", "-", "-", "-", "LF", "LF">>

truncate_text_AlwaysCombine(text, max_tokens) ==
    LET combined_words == Split(text \o <<"LF", "LF", "-", "-", "-", "LF", "LF">>)
    IN  Join(<<" ">>, Take(combined_words, IF max_tokens < 1 THEN 1 ELSE max_tokens))

truncate_text(text, max_tokens) ==
    LET words == Split(text)
    IN  IF Len(words) <= max_tokens THEN text
        ELSE LET first_chunk == Join(<<" ">>, Take(words, 500))
                 lines == SplitLines(text)
                 rest == SubSeq(lines, 6, Len(lines))
                 stripped == [i \in 1..Len(rest) |-> Strip(rest[i])]
                 detail_lines == SelectSeq(stripped, LAMBDA l :
                                     /\ \E marker \in DetailMarkers : Contains(l, marker)
                                     /\ Len(l) > 20)
                 detail_text == Join(<<"LF">>, Take(detail_lines, 20))
                 combined == first_chunk \o <<"LF", "LF", "-", "-", "-", "LF", "LF">> \o detail_text
                 combined_words == Split(combined)
             IN  IF Len(combined_words) > max_tokens
                 THEN Join(<<" ">>, Take(combined_words, max_tokens))
                 ELSE combined

\* dict.get(key, default)
HasKey(d, key) == \E i \in 1..Len(d[2]) : d[2][i][1] = <<"str", key>>
Get(d, key, default) ==
    IF HasKey(d, key)
    THEN d[2][CHOOSE i \in 1..Len(d[2]) : d[2][i][1] = <<"str", key>>][2]
    ELSE default

\* truth value of a Python value
IsTrue(v) ==
    IF v[1] \in {"false", "null"} THEN FALSE
    ELSE IF v[1] = "int" THEN v[2] # 0
    ELSE IF v[1] \in {"str", "list", "dict"} THEN v[2] # <<>>
    ELSE TRUE

PyNone == <<"null">>
PyStr(s) == <<"str", s>>
PyList(items) == <<"list", items>>

_country_name_from_code(code) ==
    IF \E i \in 1..Len(COUNTRY_WATCHLIST) : COUNTRY_WATCHLIST[i].code = code
    THEN COUNTRY_WATCHLIST[CHOOSE i \in 1..Len(COUNTRY_WATCHLIST) :
                               /\ COUNTRY_WATCHLIST[i].code = code
                               /\ \A j \in 1..(i - 1) : COUNTRY_WATCHLIST[j].code # code].formal_name
    ELSE code

\* what a call returns: the tuple (parent, children), or an exception that
\* leaves the function
Returned(parent, children) == [raised |-> FALSE, parent |-> parent, children |-> children]
Raised == [raised |-> TRUE, parent |-> None, children |-> <<>>]

\* Classifier._parse_result(data, raw, parent_id_prefix, deal_counter)
_parse_result(data, raw, parent_id_prefix, deal_counter) ==
    IF data[1] # "dict" THEN Raised                       \* data.get: AttributeError
    ELSE IF ~IsTrue(Get(data, "is_tpd", <<"false">>)) THEN Returned(None, <<>>)
    ELSE
    LET parent_data == Get(data, "parent", <<"dict", <<>>>>)
        children_data == Get(data, "children", <<"list", <<>>>>)
    IN  IF parent_data[1] # "dict" THEN Raised            \* parent_data.get: AttributeError
        ELSE
        LET country_code == Get(parent_data, "country_code", PyStr(<<"U", "S", "A">>))
        IN  IF ~IsStr(country_code) THEN Raised           \* country_code.lower: AttributeError
            ELSE
            LET parent_id == <<"t", "p", "d", "-">> \o Lower(country_code[2]) \o <<"-">> \o Digits(deal_counter)
                p_title == Get(parent_data, "title", PyStr(raw.title))
                p_summary == Get(parent_data, "summary", PyStr(<<>>))
                p_status == Get(parent_data, "status", PyStr(<<"A", "C", "T", "I", "V", "E">>))
                p_value == Get(parent_data, "total_value_usd", PyNone)
                p_date == IF raw.raw_date # <<>> THEN PyStr(raw.raw_date)
                          ELSE Get(parent_data, "date_signed", PyStr(<<>>))
                p_date_signed == Get(parent_data, "date_signed", PyNone)
                p_sectors == Get(parent_data, "sectors", PyList(<<>>))
                p_signatories == Get(parent_data, "signatories", PyList(<<>>))
                parent_valid ==
                    /\ IsStr(p_title) /\ IsStr(p_summary)
                    /\ IsStr(p_status) /\ p_status[2] \in DealStatus
                    /\ IsOptionalInt(p_value)
                    /\ IsStr(p_date) /\ IsOptionalStr(p_date_signed)
                    /\ IsListOfStr(p_sectors) /\ IsListOfStr(p_signatories)
                parent_deal ==
                    IF parent_valid
                    THEN Some([id |-> parent_id, parent_id |-> None,
                               source_id |-> raw.source_id, source_url |-> raw.source_url,
                               title |-> p_title[2], summary |-> p_summary[2],
                               type |-> "TRADE", status |-> p_status[2],
                               parties |-> <<<<"U", "n", "i", "t", "e", "d", " ", "S", "t", "a", "t", "e", "s">>,
                                             _country_name_from_code(country_code[2])>>,
                               deal_value_usd |-> p_value, country |-> country_code[2],
                               date |-> p_date[2], date_signed |-> p_date_signed,
                               sectors |-> p_sectors, signatories |-> p_signatories,
                               source_documents |->
                                   <<[label |-> raw.source_name \o <<" ", "s", "o", "u", "r", "c", "e">>,
                                      url |-> raw.source_url]>>,
                               commitment_details |-> PyNone])
                    ELSE None                              \* ValidationError / ValueError: logged
                \* iterating children_data and child_data.get
                iterable == children_data[1] = "list"
                             /\ \A i \in 1..Len(children_data[2]) : children_data[2][i][1] = "dict"
                Child(i) ==
                    LET child_data == children_data[2][i]
                        c_title == Get(child_data, "title", PyStr(<<>>))
                        c_summary == Get(child_data, "summary", PyStr(<<>>))
                        c_status == Get(child_data, "status", PyStr(<<"A", "C", "T", "I", "V", "E">>))
                        c_parties == Get(child_data, "parties", PyList(<<>>))
                        c_value == Get(child_data, "deal_value_usd", PyNone)
                        c_sector == Get(child_data, "sector", PyNone)
                        c_sectors == IF IsTrue(c_sector) THEN PyList(<<c_sector>>) ELSE PyList(<<>>)
                        c_details == Get(child_data, "commitment_details", PyNone)
                        valid ==
                            /\ IsStr(c_title) /\ IsStr(c_summary)
                            /\ IsStr(c_status) /\ c_status[2] \in DealStatus
                            /\ IsListOfStr(c_parties) /\ IsOptionalInt(c_value)
                            /\ IsListOfStr(c_sectors) /\ IsOptionalStr(c_details)
                    IN  IF valid
                        THEN <<[id |-> parent_id \o <<"-">> \o Pad3(i), parent_id |-> Some(parent_id),
                                source_id |-> <<>>, source_url |-> raw.source_url,
                                title |-> c_title[2], summary |-> c_summary[2],
                                type |-> "BUSINESS", status |-> c_status[2],
                                parties |-> c_parties, deal_value_usd |-> c_value,
                                country |-> country_code[2], date |-> raw.raw_date,
                                date_signed |-> PyNone,
                                sectors |-> c_sectors, signatories |-> PyList(<<>>),
                                source_documents |-> <<>>,
                                commitment_details |-> c_details]>>
                        ELSE <<>>                          \* logged and skipped
                ChildDeals[n \in 0..Len(children_data[2])] ==
                    IF n = 0 THEN <<>> ELSE ChildDeals[n - 1] \o Child(n)
            IN  IF ~iterable THEN Raised
                ELSE Returned(parent_deal, ChildDeals[Len(children_data[2])])

estimate_cost_CountsHits(self) ==
    LET cost == (self.stats.new_api_calls + self.stats.cache_hits) * 10
    IN  [cost |-> cost, self |-> [self EXCEPT !.stats.estimated_cost_usd = cost]]

\* Classifier.estimate_cost(); money is counted in units of $0.0001, in
\* which the rates 0.001, 0.005 and 0.03, their halves and round(cost, 4)
\* are exact
estimate_cost(self) ==
    LET per_call == IF Contains(self.model, <<"haiku">>) THEN 10
                    ELSE IF Contains(self.model, <<"sonnet">>) THEN 50
                    ELSE 300
        cost0 == self.stats.new_api_calls * per_call
        cost == IF self.batch_mode THEN cost0 \div 2 ELSE cost0
    IN  [cost |-> cost, self |-> [self EXCEPT !.stats.estimated_cost_usd = cost]]

\* the text of the service's message: a sequence of lines, each a Markdown
\* code fence, a complete JSON document, or prose
FenceLine == <<"fence">>
JsonLine(v) == <<"json", json_dumps(v)>>
ProseLine == <<"prose">>

\* Classifier._call_api from the service's answer on: strip a code fence,
\* json.loads; None for a JSONDecodeError and for any other exception
_call_api(response) ==
    IF response.kind = "exception" THEN None
    ELSE LET content == response.content
             inner == IF content # <<>> /\ content[1] = FenceLine
                      THEN SubSeq(content, 2, Len(content) - 1)
                      ELSE content
         IN  IF Len(inner) = 1 /\ inner[1][1] = "json"
             THEN LET value == json_loads(inner[1][2])
                  IN  IF value = PyNone THEN None ELSE Some(value)
             ELSE None

\* one classify_page call as the run's history records it
Classified(c, raw, page_text, deal_counter, text, outcome, before, after, response, result, value) ==
    [classifier |-> c, raw |-> raw, page_text |-> page_text, deal_counter |-> deal_counter,
     text |-> text, outcome |-> outcome, before |-> before, after |-> after,
     response |-> response, result |-> result, ret |-> value]

\* classify_page returns value to its caller
ClassifyReturn(value, entry) ==
    /\ pc' = "idle"
    /\ frame' = IdleFrame
    /\ ret' = value
    /\ hist' = [hist EXCEPT !.classified = Append(@, entry)]

\* Classifier.__init__; id tells the objects apart, ANTHROPIC_API_KEY is
\* the environment of the process
Classifier(prefilter_enabled, truncation_enabled, api_key) ==
    [id |-> Len(hist.classified) + 1,
     prefilter_enabled |-> prefilter_enabled,
     truncation_enabled |-> truncation_enabled,
     _client |-> FALSE,
     ANTHROPIC_API_KEY |-> api_key,
     stats |-> CostOptimization]

\* Classifier(model, prefilter_enabled, truncation_enabled, batch_mode) in a
\* process whose environment has ANTHROPIC_API_KEY set or not
NewClassifier(prefilter_enabled, truncation_enabled, api_key) ==
    /\ pc = "idle"
    /\ calls < MaxClassify
    /\ obs.op # "Classifier"
    /\ classifier' = Some(Classifier(prefilter_enabled, truncation_enabled, api_key))
    /\ obs' = NewObs("Classifier", None)
    /\ ret' = None
    /\ UNCHANGED <<fs, trace, now, _last_request_time, pc, frame, calls, hist, run>>

\* a cache hit is also counted as a new call
ClassifyEnter_HitCountsCall(raw, page_text, parent_id_prefix, deal_counter) ==
    LET self == classifier.some
        before == self.stats
    IN  IF self.prefilter_enabled /\ ~passes_prefilter(raw)
        THEN LET after == [before EXCEPT !.prefilter_skipped = @ + 1]
             IN  /\ classifier' = Some([self EXCEPT !.stats = after])
                 /\ ClassifyReturn(Returned(None, <<>>),
                                   Classified(self.id, raw, page_text, deal_counter, None, "skipped",
                                              before, after, None, None, Returned(None, <<>>)))
                 /\ UNCHANGED fs
        ELSE LET text == IF self.truncation_enabled
                         THEN truncate_text(page_text, MAX_INPUT_TOKENS)
                         ELSE page_text
                 cached == get_cached_classification(fs, CLASSIFICATION_CACHE_DIR, text)
             IN  IF cached # None
                 THEN LET after == [before EXCEPT !.cache_hits = @ + 1, !.new_api_calls = @ + 1]
                          value == _parse_result(cached.some, raw, parent_id_prefix, deal_counter)
                      IN  /\ classifier' = Some([self EXCEPT !.stats = after])
                          /\ ClassifyReturn(value,
                                            Classified(self.id, raw, page_text, deal_counter, Some(text),
                                                       "hit", before, after, None, cached, value))
                          /\ UNCHANGED fs
                 ELSE /\ pc' = "api"
                      /\ frame' = [op |-> "classify_page", raw |-> raw, page_text |-> page_text,
                                   text |-> text, parent_id_prefix |-> parent_id_prefix,
                                   deal_counter |-> deal_counter]
                      /\ UNCHANGED <<fs, ret, hist, classifier>>
\* classify_page up to the external call: pre-filter, truncation, cache check
ClassifyEnter(raw, page_text, parent_id_prefix, deal_counter) ==
    LET self == classifier.some
        before == self.stats
    IN  IF self.prefilter_enabled /\ ~passes_prefilter(raw)
        THEN LET after == [before EXCEPT !.prefilter_skipped = @ + 1]
             IN  /\ classifier' = Some([self EXCEPT !.stats = after])
                 /\ ClassifyReturn(Returned(None, <<>>),
                                   Classified(self.id, raw, page_text, deal_counter, None, "skipped",
                                              before, after, None, None, Returned(None, <<>>)))
                 /\ UNCHANGED fs
        ELSE LET text == IF self.truncation_enabled
                         THEN truncate_text(page_text, MAX_INPUT_TOKENS)
                         ELSE page_text
                 cached == get_cached_classification(fs, CLASSIFICATION_CACHE_DIR, text)
             IN  IF cached # None
                 THEN LET after == [before EXCEPT !.cache_hits = @ + 1]
                          value == _parse_result(cached.some, raw, parent_id_prefix, deal_counter)
                      IN  /\ classifier' = Some([self EXCEPT !.stats = after])
                          /\ ClassifyReturn(value,
                                            Classified(self.id, raw, page_text, deal_counter, Some(text),
                                                       "hit", before, after, None, cached, value))
                          /\ UNCHANGED fs
                 ELSE /\ pc' = "api"
                      /\ frame' = [op |-> "classify_page", raw |-> raw, page_text |-> page_text,
                                   text |-> text, parent_id_prefix |-> parent_id_prefix,
                                   deal_counter |-> deal_counter]
                      /\ UNCHANGED <<fs, ret, hist, classifier>>

\* a call of classifier.classify_page(raw, page_text, "tpd", deal_counter),
\* the counter being one more than the calls this classifier has had
classify_page(raw, page_text) ==
    /\ pc = "idle"
    /\ classifier # None
    /\ calls < MaxClassify
    /\ calls' = calls + 1
    /\ obs' = NewObs("classify_page", None)
    /\ ClassifyEnter(raw, page_text, <<"t", "p", "d">>,
                     1 + Cardinality({i \in 1..Len(hist.classified) :
                                         hist.classified[i].classifier = classifier.some.id}))
    /\ UNCHANGED <<trace, now, _last_request_time, run>>

\* sys.exit(1) in _get_client: the process ends
Exit ==
    /\ pc' = "idle"
    /\ frame' = IdleFrame
    /\ ret' = None
    /\ classifier' = None
    /\ run' = [run EXCEPT !.phase = IF @ = "none" THEN @ ELSE "exited"]
    /\ UNCHANGED <<fs, hist>>

\* the external call and the rest of classify_page: _get_client, the
\* service's answer, the cache write, the counter, _parse_result
ApiReturns(response) ==
    /\ pc = "api"
    /\ LET self == classifier.some
           before == self.stats
           text == frame.text
       IN  IF ~self._client /\ ~self.ANTHROPIC_API_KEY
           THEN Exit
           ELSE LET result == _call_api(response)
                    sent == [hist EXCEPT !.api_sent = Append(@, text)]
                IN  IF result = None
                    THEN /\ pc' = "idle"
                         /\ frame' = IdleFrame
                         /\ ret' = Returned(None, <<>>)
                         /\ hist' = [sent EXCEPT !.classified = Append(@,
                                        Classified(self.id, frame.raw, frame.page_text, frame.deal_counter,
                                                   Some(text), "failed", before, before,
                                                   Some(response), None, Returned(None, <<>>)))]
                         /\ classifier' = Some([self EXCEPT !._client = TRUE])
                         /\ UNCHANGED <<fs, run>>
                    ELSE LET after == [before EXCEPT !.new_api_calls = @ + 1]
                             value == _parse_result(result.some, frame.raw,
                                                    frame.parent_id_prefix, frame.deal_counter)
                         IN  /\ fs' = save_cached_classification(fs, CLASSIFICATION_CACHE_DIR,
                                                                 text, result.some)
                             /\ pc' = "idle"
                             /\ frame' = IdleFrame
                             /\ ret' = value
                             /\ hist' = [sent EXCEPT !.classified = Append(@,
                                            Classified(self.id, frame.raw, frame.page_text,
                                                       frame.deal_counter, Some(text), "saved",
                                                       before, after, Some(response), result,
                                                       value))]
                             /\ classifier' = Some([self EXCEPT !._client = TRUE, !.stats = after])
                             /\ UNCHANGED run
    /\ UNCHANGED <<trace, now, _last_request_time, obs, calls>>

-----------------------------------------------------------------------------
(* pipeline/scrapers/base.py and whitehouse.py: the listing scraper        *)

\* SOURCES["whitehouse"]: the listing URL of each section up to the page
\* number, and max_pages
SOURCES_whitehouse ==
    [sections |-> << <<"https://", "www.whitehouse.gov", "/", "fact-sheets", "/", "page", "/">>,
                     <<"https://", "www.whitehouse.gov", "/", "articles", "/", "page", "/">> >>,
     max_pages |-> 25]

MAX_DEALS_TO_PROCESS == 50

\* url_template.format(page=page_num)
ListingUrl(section, page_num) ==
    SOURCES_whitehouse.sections[section] \o Digits(page_num) \o <<"/">>

\* the filter ignored: the names of every country count
title_matches_watchlist_AnyCountry(title, country_filter) ==
    LET title_lower == Lower(title)
        all_keywords == TECH_KEYWORDS \o DEAL_KEYWORDS
    IN  /\ \E i \in 1..Len(COUNTRY_WATCHLIST) : \E n \in 1..Len(COUNTRY_WATCHLIST[i].names) :
               Contains(title_lower, Lower(COUNTRY_WATCHLIST[i].names[n]))
        /\ \E k \in 1..Len(all_keywords) : Contains(title_lower, Lower(all_keywords[k]))
title_matches_watchlist(title, country_filter) ==
    LET title_lower == Lower(title)
        all == 1..Len(COUNTRY_WATCHLIST)
        countries_to_check ==
            IF /\ country_filter # None
               /\ country_filter.some # <<>>
               /\ \E i \in all : COUNTRY_WATCHLIST[i].key = country_filter.some
            THEN {i \in all : COUNTRY_WATCHLIST[i].key = country_filter.some}
            ELSE all
        country_match ==
            \E i \in countries_to_check : \E n \in 1..Len(COUNTRY_WATCHLIST[i].names) :
                Contains(title_lower, Lower(COUNTRY_WATCHLIST[i].names[n]))
        all_keywords == TECH_KEYWORDS \o DEAL_KEYWORDS
    IN  /\ country_match
        /\ \E k \in 1..Len(all_keywords) : Contains(title_lower, Lower(all_keywords[k]))

LinkSegments == { <<"/", "articles", "/">>, <<"/", "fact-sheets", "/">>,
                  <<"/", "presidential-actions", "/">> }

RECURSIVE _parse_listing_page(_)
\* WhiteHouseScraper._parse_listing_page(html): the (title, url) pairs of the
\* links of the page
_parse_listing_page(html) ==
    IF html = <<>> THEN <<>>
    ELSE IF Head(html) \notin Anchors THEN _parse_listing_page(Tail(html))
    ELSE LET href == AnchorHref(Head(html))
             title == RStrip(LStrip(AnchorTitle(Head(html))))
             skip == \/ title = <<>>
                     \/ Len(title) < 10
                     \/ ~\E segment \in LinkSegments : Contains(href, segment)
             url == IF href # <<>> /\ href[1] = "/"
                    THEN <<"https://", "www.whitehouse.gov">> \o href
                    ELSE href
         IN  (IF skip THEN <<>> ELSE <<[title |-> title, link |-> url]>>)
                 \o _parse_listing_page(Tail(html))

\* the path parts of four and of two digits
FourDigits == {"2025"}
TwoDigits == {"10"}

\* re.search(r"/(\d{4})/(\d{2})/", url)
_extract_date_from_url(url) ==
    LET Matches(i) == /\ url[i] = "/" /\ url[i + 1] \in FourDigits /\ url[i + 2] = "/"
                      /\ url[i + 3] \in TwoDigits /\ url[i + 4] = "/"
        starts == {i \in 1..(Len(url) - 4) : Matches(i)}
    IN  IF starts = {} THEN <<>>
        ELSE LET i == CHOOSE m \in starts : \A k \in starts : m <= k
             IN  <<url[i + 1], "-", url[i + 3], "-01">>

RECURSIVE NextMatch(_, _, _)
\* the loop over the candidates of a listing page up to the next one that is
\* new and matches the watchlist
NextMatch(queue, seen_urls, country_filter) ==
    IF queue = <<>> THEN [queue |-> <<>>, seen_urls |-> seen_urls, next |-> None]
    ELSE LET c == Head(queue)
         IN  IF c.link \in seen_urls
             THEN NextMatch(Tail(queue), seen_urls, country_filter)
             ELSE IF ~title_matches_watchlist(c.title, country_filter)
             THEN NextMatch(Tail(queue), seen_urls \cup {c.link}, country_filter)
             ELSE [queue |-> Tail(queue), seen_urls |-> seen_urls \cup {c.link},
                   next |-> Some(c)]

-----------------------------------------------------------------------------
(* pipeline/main.py: main() with --source whitehouse, --country or not     *)

NoRun ==
    [n |-> 0, phase |-> "none", args |-> None, site |-> None,
     section |-> 0, page_num |-> 0, seen_urls |-> {}, queue |-> <<>>, current |-> None,
     results |-> <<>>, all_raw_deals |-> <<>>,
     idx |-> 0, deal_counter |-> 0, all_deals |-> <<>>, seen_parent_countries |-> {},
     errors |-> <<>>, output |-> None,
     source_idx |-> 0, sources_scraped |-> <<>>, closed |-> <<>>,
     base |-> [requests |-> 0, html_parses |-> 0, api_calls |-> 0, non2xx |-> 0, classified |-> 0],
     prev |-> [done |-> FALSE, clean |-> FALSE]]

\* the run fetched every page with a 2xx answer and every external call it
\* made returned a result
CleanRun(r, h) ==
    /\ h.non2xx = r.base.non2xx
    /\ \A i \in (r.base.classified + 1)..Len(h.classified) : h.classified[i].outcome # "failed"

\* _scrape_listing returns: deals.extend(section_deals), then the next
\* section or the end of scrape()
EndSection(r) ==
    LET deals == r.all_raw_deals \o r.results
        r1 == [r EXCEPT !.all_raw_deals = deals, !.results = <<>>, !.queue = <<>>,
                        !.seen_urls = {}, !.current = None]
    IN  IF r.section < Len(SOURCES_whitehouse.sections)
        THEN [r1 EXCEPT !.section = @ + 1, !.page_num = 1, !.phase = "listing"]
        ELSE [r1 EXCEPT !.phase = "scraped",
                        !.sources_scraped = Append(@, <<"whitehouse">>),
                        !.closed = Append(@, <<"whitehouse">>)]

\* the end of one iteration of for page_num in range(1, max_pages + 1)
NextPage(r) ==
    IF r.page_num + 1 > SOURCES_whitehouse.max_pages
    THEN EndSection(r)
    ELSE [r EXCEPT !.page_num = @ + 1, !.phase = "listing"]

\* main(): the arguments are parsed, the scraper is constructed
Main(args, site) ==
    /\ pc = "idle"
    /\ run.phase \in {"none", "done", "exited"}
    /\ run.n < MaxRuns
    /\ run.n > 0 => ( /\ args.country = run.args.some.country
                     /\ args.api_key = run.args.some.api_key
                     /\ site = run.site.some )
    /\ run' = [NoRun EXCEPT
                  !.n = run.n + 1, !.phase = "listing", !.args = Some(args), !.site = Some(site),
                  !.section = 1, !.page_num = 1,
                  !.base = [requests |-> hist.requests, html_parses |-> hist.html_parses,
                            api_calls |-> Len(hist.api_sent), non2xx |-> hist.non2xx,
                            classified |-> Len(hist.classified)],
                  !.prev = [done |-> run.phase = "done", clean |-> CleanRun(run, hist)]]
    /\ _last_request_time' = [h \in {} |-> 0]
    /\ hist' = [hist EXCEPT !.sent = [h \in {} |-> 0], !.last_send = None]
    /\ classifier' = None
    /\ obs' = NoObs
    /\ ret' = None
    /\ UNCHANGED <<fs, trace, now, pc, frame, calls>>

\* html = self.fetch_page(url) for the next listing page
ScrapeListing ==
    /\ pc = "idle"
    /\ run.phase = "listing"
    /\ LET request == Request(ListingUrl(run.section, run.page_num), "GET", None, None)
       IN  FetchPageEnter(request, NewObs("fetch_page", request), None)
    /\ run' = [run EXCEPT !.phase = "listing_fetched"]
    /\ UNCHANGED <<trace, now, calls, classifier>>

\* the listing page is back: stop at "no content", parse it otherwise, stop
\* when it has no candidates
ListingFetched ==
    /\ pc = "idle"
    /\ run.phase = "listing_fetched"
    /\ IF ret = None
       THEN /\ run' = EndSection(run)
            /\ UNCHANGED hist
       ELSE LET candidates == _parse_listing_page(ret.some)
            IN  /\ hist' = [hist EXCEPT !.html_parses = @ + 1]
                /\ run' = IF candidates = <<>>
                          THEN EndSection(run)
                          ELSE [run EXCEPT !.queue = candidates, !.phase = "candidates"]
    /\ UNCHANGED <<fs, trace, now, _last_request_time, pc, frame, ret, obs, calls, classifier>>

\* for title, link in candidates: up to text = self.fetch_and_extract(link)
\* for the next match, or to the end of the page
ScrapeCandidates ==
    /\ pc = "idle"
    /\ run.phase = "candidates"
    /\ LET m == NextMatch(run.queue, run.seen_urls, run.args.some.country)
           r == [run EXCEPT !.queue = m.queue, !.seen_urls = m.seen_urls]
       IN  IF m.next = None
           THEN /\ run' = NextPage(r)
                /\ UNCHANGED <<fs, _last_request_time, pc, frame, ret, obs, hist>>
           ELSE /\ run' = [r EXCEPT !.current = m.next, !.phase = "article_fetched"]
                /\ FetchAndExtractEnter(m.next.some.link)
    /\ UNCHANGED <<trace, now, calls, classifier>>

\* the article's text is back: results.append(RawDeal(...))
ArticleFetched ==
    /\ pc = "idle"
    /\ run.phase = "article_fetched"
    /\ LET c == run.current.some
           snippet == IF ret # None /\ ret.some # <<>> THEN Take(ret.some, 1000) ELSE <<>>
           raw == RawDeal(c.title, c.link, <<>>, snippet, _extract_date_from_url(c.link),
                          <<"w", "h", "i", "t", "e", "h", "o", "u", "s", "e">>)
       IN  run' = [run EXCEPT !.results = Append(@, raw), !.current = None,
                              !.phase = "candidates"]
    /\ UNCHANGED <<fs, trace, now, _last_request_time, pc, frame, ret, obs, calls, hist,
                   classifier>>

\* get_scraper_classes(): the sources in the order of the dict
scraper_classes == << <<"federal_register">>, <<"whitehouse">>, <<"commerce">>, <<"ustr">> >>

\* the first failure ends the loop over the sources
AfterScrape_StopsAtFailure(r, source_name, outcome) ==
    IF outcome.raised
    THEN [r EXCEPT !.errors = Append(@, [source |-> source_name]),
                   !.closed = Append(@, source_name),
                   !.source_idx = @ + 1, !.phase = "scraped"]
    ELSE LET r1 == [r EXCEPT !.all_raw_deals = @ \o outcome.raw,
                             !.sources_scraped = Append(@, source_name),
                             !.closed = Append(@, source_name),
                             !.source_idx = @ + 1]
         IN  IF r1.source_idx > Len(scraper_classes) THEN [r1 EXCEPT !.phase = "scraped"] ELSE r1

\* one iteration of for source_name, scraper_cls in scraper_classes.items():
\* scrape() returned the candidates outcome.raw or raised; finally
\* scraper.close()
AfterScrape(r, source_name, outcome) ==
    LET r1 == IF outcome.raised
              THEN [r EXCEPT !.errors = Append(@, [source |-> source_name])]
              ELSE [r EXCEPT !.all_raw_deals = @ \o outcome.raw,
                             !.sources_scraped = Append(@, source_name)]
        r2 == [r1 EXCEPT !.closed = Append(@, source_name), !.source_idx = @ + 1]
    IN  IF r2.source_idx > Len(scraper_classes) THEN [r2 EXCEPT !.phase = "scraped"] ELSE r2
\* the fetch phase is over: the classification cache is cleared when
\* --clear-cache is given, and the classifier is constructed
StartClassification ==
    /\ pc = "idle"
    /\ run.phase = "scraped"
    /\ fs' = IF run.args.some.clear_cache
             THEN clear_cache(fs, CLASSIFICATION_CACHE_DIR).files
             ELSE fs
    /\ classifier' = Some(Classifier(TRUE, TRUE, run.args.some.api_key))
    /\ run' = [run EXCEPT !.phase = "classify", !.idx = 1, !.deal_counter = 0]
    /\ UNCHANGED <<trace, now, _last_request_time, pc, frame, ret, obs, calls, hist>>

deals_to_process(r) == Take(r.all_raw_deals, MAX_DEALS_TO_PROCESS)

\* for raw in deals_to_process: up to classifier.classify_page(...)
ClassifyNext ==
    /\ pc = "idle"
    /\ run.phase = "classify"
    /\ run.idx <= Len(deals_to_process(run))
    /\ LET raw == deals_to_process(run)[run.idx]
           cached_text == _get_extracted_text(fs, raw.source_url)
           page_text == IF cached_text # None /\ cached_text.some # <<>>
                        THEN cached_text.some
                        ELSE raw.title \o <<"LF", "LF">> \o raw.snippet
       IN  ClassifyEnter(raw, page_text, <<"t", "p", "d">>, run.deal_counter + 1)
    /\ run' = [run EXCEPT !.deal_counter = @ + 1, !.phase = "classified"]
    /\ obs' = NewObs("classify_page", None)
    /\ UNCHANGED <<trace, now, _last_request_time, calls>>

\* the later parent takes the place of the kept one
MergeParent_KeepsLater(all_deals, parent) ==
    [i \in 1..Len(all_deals) |->
        IF all_deals[i].parent_id = None /\ all_deals[i].country = parent.country
        THEN [parent EXCEPT !.source_documents = all_deals[i].source_documents \o @]
        ELSE all_deals[i]]
\* existing.source_documents.extend(parent.source_documents) for the first
\* parent of that country
MergeParent(all_deals, parent) ==
    IF \E i \in 1..Len(all_deals) :
           all_deals[i].parent_id = None /\ all_deals[i].country = parent.country
    THEN LET e == CHOOSE i \in 1..Len(all_deals) :
                      /\ all_deals[i].parent_id = None /\ all_deals[i].country = parent.country
                      /\ \A j \in 1..(i - 1) :
                            ~(all_deals[j].parent_id = None /\ all_deals[j].country = parent.country)
         IN  [all_deals EXCEPT ![e].source_documents = @ \o parent.source_documents]
    ELSE all_deals

\* classify_page is back: the parent is added or merged, the children are
\* added; an exception is recorded
ClassifyDone ==
    /\ pc = "idle"
    /\ run.phase = "classified"
    /\ LET raw == deals_to_process(run)[run.idx]
           r == [run EXCEPT !.idx = @ + 1, !.phase = "classify"]
       IN  IF ret.raised
           THEN run' = [r EXCEPT !.errors = Append(@, [source |-> raw.source_url])]
           ELSE IF ret.parent = None
           THEN run' = r
           ELSE LET parent == ret.parent.some
                IN  IF parent.country \notin run.seen_parent_countries
                    THEN run' = [r EXCEPT !.all_deals = Append(@, parent) \o ret.children,
                                          !.seen_parent_countries = @ \cup {parent.country}]
                    ELSE run' = [r EXCEPT !.all_deals = MergeParent(@, parent) \o ret.children]
    /\ UNCHANGED <<fs, trace, now, _last_request_time, pc, frame, ret, obs, calls, hist,
                   classifier>>

\* the deals are classified: the output is built and written
Finish ==
    /\ pc = "idle"
    /\ run.phase = "classify"
    /\ run.idx > Len(deals_to_process(run))
    /\ run' = [run EXCEPT !.phase = "done",
                          !.output = Some([deals_scanned |-> Len(run.all_raw_deals),
                                           deals_processed |-> Len(run.all_deals),
                                           sources_scraped |-> run.sources_scraped,
                                           cost_optimization |-> classifier.some.stats,
                                           errors |-> run.errors,
                                           items |-> run.all_deals])]
    /\ UNCHANGED <<fs, trace, now, _last_request_time, pc, frame, ret, obs, calls, hist,
                   classifier>>

-----------------------------------------------------------------------------
(* The universe of the fetcher                                             *)

Urls == { <<"https://", "a.gov", "/1">>,
          <<"https://", "a.gov", "/2">>,
          <<"https://", "b.gov", "/1">> }

\* page bodies a server sends: empty, or markup with DOS line ends
Bodies == { <<>>, <<"<s>", "a", "CR", "LF", "b", "LF">> }

StatusCodes == {403, 404, 429, 500}

Outcomes ==
    {Response(200, b) : b \in Bodies}
        \cup {Response(s, <<>>) : s \in StatusCodes}
        \cup {TransportError}

\* time between the return of one call and the next call
IdleGaps == {0, 1, REQUEST_DELAY_SECONDS}

PlainRequests == {Request(u, "GET", None, None) : u \in Urls}

\* requests to one endpoint that differ in method, query params and JSON body
KeyUrl == <<"https://", "a.gov", "/search">>

ParamDicts ==
    { None,
      Some(<<"dict", << <<<<"str", "page">>, <<"int", 1>>>>, <<<<"str", "term">>, <<"str", <<"x">>>>>> >>>>),
      Some(<<"dict", << <<<<"str", "term">>, <<"str", <<"x">>>>>>, <<<<"str", "page">>, <<"int", 1>>>> >>>>),
      Some(<<"dict", << <<<<"str", "page">>, <<"int", 2>>>> >>>>) }

BodyDicts ==
    { None,
      Some(<<"dict", << <<<<"str", "term">>, <<"str", <<"x">>>>>> >>>>),
      Some(<<"dict", << <<<<"str", "term">>, <<"str", <<"y">>>>>> >>>>) }

\* a GET carries no body
KeyRequests ==
    {Request(KeyUrl, "POST", b, q) : b \in BodyDicts, q \in ParamDicts}
        \cup {Request(KeyUrl, "GET", None, q) : q \in ParamDicts}

KeyOutcomes == {Response(200, b) : b \in Bodies} \cup {Response(404, <<>>)}

-----------------------------------------------------------------------------
(* The universe of the classifier                                          *)

\* candidates: one that passes the pre-filter, one that does not, one whose
\* title and snippet hold a keyword ("data center") only when joined
ClassifyRaws ==
    { RawDeal(<<"K", "o", "r", "e", "a", " ", "d", "e", "a", "l">>, <<"https://", "a.gov", "/1">>, <<>>, <<>>,
              <<"2", "0", "2", "5", "-", "1", "0", "-", "0", "1">>, <<"w", "h", "i", "t", "e", "h", "o", "u", "s", "e">>),
      RawDeal(<<"W", "e", "a", "t", "h", "e", "r">>, <<"https://", "a.gov", "/2">>, <<>>, <<"s", "u", "n", "n", "y">>,
              <<>>, <<"w", "h", "i", "t", "e", "h", "o", "u", "s", "e">>),
      RawDeal(<<"B", "i", "g", " ", "d", "a", "t", "a">>, <<"https://", "a.gov", "/3">>, <<>>, <<"c", "e", "n", "t", "e", "r">>,
              <<>>, <<"w", "h", "i", "t", "e", "h", "o", "u", "s", "e">>) }

PageTexts == { <<"K", "o", "r", "e", "a", "LF", "$", "1">>, <<"x">> }

NotRelevantResult == <<"dict", << <<<<"str", "is_tpd">>, <<"false">>>> >>>>

RelevantResult ==
    <<"dict",
      << <<<<"str", "is_tpd">>, <<"true">>>>,
         <<<<"str", "parent">>,
           <<"dict", << <<<<"str", "title">>, <<"str", <<"T">>>>>>,
                        <<<<"str", "country_code">>, <<"str", <<"K", "O", "R">>>>>>,
                        <<<<"str", "status">>, <<"str", <<"A", "C", "T", "I", "V", "E">>>>>>,
                        <<<<"str", "total_value_usd">>, <<"null">>>> >>>>>>,
         <<<<"str", "children">>,
           <<"list",
             << <<"dict", << <<<<"str", "title">>, <<"str", <<"C">>>>>>,
                             <<<<"str", "deal_value_usd">>, <<"int", 5>>>> >>>>,
                <<"dict", << <<<<"str", "title">>, <<"str", <<"D">>>>>>,
                             <<<<"str", "status">>, <<"str", <<"C", "O", "M", "M", "I", "T", "T", "E", "D">>>>>> >>>> >>>>>> >>>>

ApiResults == {NotRelevantResult, RelevantResult, <<"list", <<>>>>, <<"null">>}

Message(content) == [kind |-> "message", content |-> content]

\* what the service answers: a JSON document, bare or fenced, prose, or an
\* exception of the client
ApiResponses ==
    {Message(<<JsonLine(v)>>) : v \in ApiResults}
        \cup { Message(<<FenceLine, JsonLine(RelevantResult), FenceLine>>),
               Message(<<ProseLine>>),
               [kind |-> "exception", content |-> <<>>] }

\* prefilter_enabled, truncation_enabled, ANTHROPIC_API_KEY set
ClassifierOptions ==
    { <<TRUE, TRUE, TRUE>>, <<FALSE, TRUE, TRUE>>, <<TRUE, FALSE, TRUE>>, <<TRUE, TRUE, FALSE>> }

-----------------------------------------------------------------------------
(* The universe of main()                                                  *)

\* a listing page with three links, a listing page without candidates, an
\* article
ListingBody == <<"<a3>", "<a1>", "LF", "<a2>">>
EmptyListingBody == <<"<a3>">>
ArticleBody == <<"<s>", "K", "o", "r", "e", "a", " ", "d", "e", "a", "l", "CR", "LF", "$", "1">>

\* the site: how many listing pages of a section have links, what follows
\* them, and whether the article exists
Sites == { [pages |-> 1, tail |-> t, article |-> a] : t \in {"empty", "404"}, a \in {"ok", "404"} }

IsListingUrl(url) ==
    \E sec \in 1..Len(SOURCES_whitehouse.sections) :
        /\ Len(url) > Len(SOURCES_whitehouse.sections[sec])
        /\ SubSeq(url, 1, Len(SOURCES_whitehouse.sections[sec])) = SOURCES_whitehouse.sections[sec]

\* the page number of a listing URL of one digit
PageOf(url) == CHOOSE n \in 1..9 : DigitChars[n + 1] = url[Len(url) - 1]

\* what the site answers to a GET of url
SiteResponse(site, url) ==
    IF IsListingUrl(url)
    THEN IF PageOf(url) <= site.pages THEN Response(200, ListingBody)
         ELSE IF site.tail = "empty" THEN Response(200, EmptyListingBody)
         ELSE Response(404, <<>>)
    ELSE IF site.article = "ok" THEN Response(200, ArticleBody)
    ELSE Response(404, <<>>)

\* the answers to the request in flight: the site's, or a 5xx while the
\* site has failures left
RunOutcomes ==
    {SiteResponse(run.site.some, frame.request.url)}
        \cup (IF hist.http_5xx < MaxFailures THEN {Response(500, <<>>)} ELSE {})

RunArgs == { [country |-> c, api_key |-> k, clear_cache |-> cc] :
                c \in {None, Some(<<"J", "a", "p", "a", "n">>)}, k \in BOOLEAN, cc \in BOOLEAN }

RunApiResponses ==
    { Message(<<JsonLine(RelevantResult)>>), Message(<<JsonLine(NotRelevantResult)>>),
      Message(<<ProseLine>>), Message(<<JsonLine(<<"list", <<>>>>)>>) }

-----------------------------------------------------------------------------
(* Inputs of the cache-store operations                                    *)

CacheDirs == {PAGE_CACHE_DIR, CLASSIFICATION_CACHE_DIR}

CacheKeys == {<<"k1">>, <<"k2">>}

\* page bodies: empty, plain, Unix line ends, DOS line ends
PageContents == {<<>>, <<"a">>, <<"a", "LF", "b">>, <<"a", "CR", "LF", "b">>}

\* classification results as dicts
ResultDicts ==
    { <<"dict", << <<<<"str", "is_tpd">>, <<"false">>>> >>>>,
      <<"dict", << <<<<"str", "is_tpd">>, <<"true">>>>,
                   <<<<"str", "parent">>,
                     <<"dict", << <<<<"str", "country_code">>, <<"str", <<"K", "O", "R">>>>>> >>>>>> >>>>,
      <<"dict", << <<<<"int", "1">>, <<"str", <<"x">>>>>> >>>> }

EmptyFs == [p \in {} |-> <<>>]

FetcherUnchanged ==
    UNCHANGED <<now, _last_request_time, pc, frame, ret, obs, calls, hist, classifier, run>>

-----------------------------------------------------------------------------
(* The cache store driven directly: SpecCache                              *)

SavePage(cache_dir, url, content) ==
    /\ Len(trace) < MaxOps
    /\ fs' = save_cached_page(fs, cache_dir, url, content)
    /\ trace' = Append(trace, [op |-> "save_page", dir |-> cache_dir, key |-> url,
                               value |-> content, result |-> None])
    /\ FetcherUnchanged

GetPage(cache_dir, url) ==
    /\ Len(trace) < MaxOps
    /\ trace' = Append(trace, [op |-> "get_page", dir |-> cache_dir, key |-> url,
                               value |-> None,
                               result |-> get_cached_page(fs, cache_dir, url)])
    /\ UNCHANGED fs
    /\ FetcherUnchanged

SaveClassification(cache_dir, raw_text, result) ==
    /\ Len(trace) < MaxOps
    /\ fs' = save_cached_classification(fs, cache_dir, raw_text, result)
    /\ trace' = Append(trace, [op |-> "save_classification", dir |-> cache_dir,
                               key |-> raw_text, value |-> result, result |-> None])
    /\ FetcherUnchanged

GetClassification(cache_dir, raw_text) ==
    /\ Len(trace) < MaxOps
    /\ trace' = Append(trace, [op |-> "get_classification", dir |-> cache_dir,
                               key |-> raw_text, value |-> None,
                               result |-> get_cached_classification(fs, cache_dir, raw_text)])
    /\ UNCHANGED fs
    /\ FetcherUnchanged

Init ==
    /\ fs = EmptyFs
    /\ trace = <<>>
    /\ now = StartTime
    /\ _last_request_time = [h \in {} |-> 0]
    /\ pc = "idle"
    /\ frame = IdleFrame
    /\ ret = None
    /\ obs = NoObs
    /\ calls = 0
    /\ hist = [sent |-> [h \in {} |-> 0], last_send |-> None,
               writer |-> [p \in {} |-> None], parsed |-> <<>>,
               requests |-> 0, html_parses |-> 0, non2xx |-> 0, http_5xx |-> 0,
               api_sent |-> <<>>, classified |-> <<>>]
    /\ classifier = None
    /\ run = NoRun

NextCache ==
    \/ \E d \in CacheDirs, k \in CacheKeys, c \in PageContents : SavePage(d, k, c)
    \/ \E d \in CacheDirs, k \in CacheKeys : GetPage(d, k)
    \/ \E d \in CacheDirs, k \in CacheKeys, r \in ResultDicts : SaveClassification(d, k, r)
    \/ \E d \in CacheDirs, k \in CacheKeys : GetClassification(d, k)

SpecCache == Init /\ [][NextCache]_vars

-----------------------------------------------------------------------------
(* The fetcher driven by a caller and a network: Spec                      *)

Next ==
    \/ \E r \in PlainRequests, gap \in IdleGaps : fetch_page(r, gap)
    \/ \E u \in Urls, gap \in IdleGaps : fetch_and_extract(u, gap)
    \/ SendRequest
    \/ \E resp \in Outcomes : ReceiveResponse(resp)

Spec == Init /\ [][Next]_vars

\* fetch_page called with params and JSON bodies: SpecKey
NextKey ==
    \/ \E r \in KeyRequests : fetch_page(r, REQUEST_DELAY_SECONDS)
    \/ SendRequest
    \/ \E resp \in KeyOutcomes : ReceiveResponse(resp)

SpecKey == Init /\ [][NextKey]_vars

\* the classifier driven by a caller and the service: SpecClassify
NextClassify ==
    \/ \E o \in ClassifierOptions : NewClassifier(o[1], o[2], o[3])
    \/ \E raw \in ClassifyRaws, page_text \in PageTexts : classify_page(raw, page_text)
    \/ \E response \in ApiResponses : ApiReturns(response)

SpecClassify == Init /\ [][NextClassify]_vars

\* main() run and run again, with the site and the service: SpecRun
NextRun ==
    \/ \E args \in RunArgs, site \in Sites : Main(args, site)
    \/ ScrapeListing
    \/ ListingFetched
    \/ ScrapeCandidates
    \/ ArticleFetched
    \/ StartClassification
    \/ ClassifyNext
    \/ ClassifyDone
    \/ Finish
    \/ (run.phase # "none" /\ SendRequest)
    \/ (run.phase # "none" /\ pc = "await" /\ \E resp \in RunOutcomes : ReceiveResponse(resp))
    \/ (run.phase # "none" /\ \E response \in RunApiResponses : ApiReturns(response))

SpecRun == Init /\ [][NextRun]_vars

\* Every request ends, with a response or with the transport's exception (the
\* client is built with timeout=REQUEST_TIMEOUT_SECONDS), and the thread goes
\* on from a sleep to its next request.
FairSpec ==
    /\ Spec
    /\ WF_vars(SendRequest)
    /\ WF_vars(\E resp \in Outcomes : ReceiveResponse(resp))

-----------------------------------------------------------------------------
(* C1: a save followed by a get of the same key returns exactly the saved  *)
(* value, for pages and for classification results, and saving the         *)
(* identical value a second time leaves the result of get unchanged.       *)

GetOf(op) == IF op = "save_page" THEN "get_page" ELSE "get_classification"

IsSave(e) == e.op \in {"save_page", "save_classification"}

SameEntry(e1, e2) == e1.dir = e2.dir /\ e1.key = e2.key

C1_SaveThenGetReturnsSaved ==
    /\ \A i \in 1..(Len(trace) - 1) :
          ( /\ IsSave(trace[i])
            /\ trace[i + 1].op = GetOf(trace[i].op)
            /\ SameEntry(trace[i], trace[i + 1]) )
          => trace[i + 1].result = Some(trace[i].value)
    /\ \A i \in 1..(Len(trace) - 2) :
          ( /\ IsSave(trace[i])
            /\ trace[i + 1].op = trace[i].op
            /\ SameEntry(trace[i], trace[i + 1])
            /\ trace[i + 1].value = trace[i].value
            /\ trace[i + 2].op = GetOf(trace[i].op)
            /\ SameEntry(trace[i], trace[i + 2]) )
          => trace[i + 2].result = Some(trace[i].value)

-----------------------------------------------------------------------------
(* Claims about the classifier                                             *)

\* the i-th classify_page call is the first one that sends its text
FirstWithText(i) ==
    /\ hist.classified[i].text # None
    /\ \A k \in 1..(i - 1) : hist.classified[k].text # hist.classified[i].text

\* call i missed, called the service once and persisted the result under the
\* content hash of the text sent, and call j was served from the cache
OneCallOneWrite(i, j) ==
    LET first == hist.classified[i]
        second == hist.classified[j]
        text == first.text.some
        cache_file == ClassificationFile(CLASSIFICATION_CACHE_DIR, text)
    IN  /\ first.outcome = "saved"
        /\ first.after = [first.before EXCEPT !.new_api_calls = @ + 1]
        /\ Exists(fs, cache_file)
        /\ fs[cache_file] = json_dumps(first.result.some)
        /\ second.outcome = "hit"
        /\ second.after = [second.before EXCEPT !.cache_hits = @ + 1]
        /\ second.result = Some(json_loads(fs[cache_file]))
        /\ second.ret = _parse_result(second.result.some, second.raw, <<"t", "p", "d">>,
                                      second.deal_counter)
        /\ Cardinality({k \in 1..Len(hist.api_sent) : hist.api_sent[k] = text}) = 1
        /\ Cardinality({k \in 1..Len(hist.classified) :
                           /\ hist.classified[k].text = first.text
                           /\ hist.classified[k].outcome = "saved"}) = 1

-----------------------------------------------------------------------------
(* Claims about a run                                                      *)

\* C10: a full re-run with warm caches does zero network requests, zero
\* HTML parsing and zero external AI calls: when a run fetched every page
\* with a 2xx response and every classification call returned a parseable
\* result, the following run over the same inputs, no cache being cleared in
\* between, issues no network request, parses no HTML and makes no external
\* call.
C10_WarmRerunDoesNothing ==
    ( run.n >= 2 /\ run.prev.done /\ run.prev.clean /\ ~run.args.some.clear_cache ) =>
        /\ hist.requests = run.base.requests
        /\ hist.html_parses = run.base.html_parses
        /\ Len(hist.api_sent) = run.base.api_calls

\* the part of C10 about the network and the service
WarmRerunNoRequestNoCall ==
    ( run.n >= 2 /\ run.prev.done /\ run.prev.clean /\ ~run.args.some.clear_cache ) =>
        /\ hist.requests = run.base.requests
        /\ Len(hist.api_sent) = run.base.api_calls

-----------------------------------------------------------------------------
(* Claims about the fetcher                                                *)

\* a step in which fetch_page is called directly
FetchPageCallStep == pc = "idle" /\ calls' = calls + 1 /\ obs'.op = "fetch_page"

\* what the page cache holds for a request
CachedFor(request) ==
    get_cached_page(fs, PAGE_CACHE_DIR,
                    BuildCacheKey(request.url, request.json_body, request.params))

StatusCodesOf(o) == [i \in 1..Len(o.responses) |-> o.responses[i].status_code]

LastResponse(o) == o.responses[Len(o.responses)]

\* C2: when the page cache holds an entry for the request's key, fetch_page
\* returns the cached body and does nothing else: no request, no sleep, no
\* change of the host table, no cache write; and the second of two
\* sequential fetch_page calls of one request makes no request when the
\* first one returned a body.
C2_CacheHitHasNoOtherEffect ==
    [][ FetchPageCallStep =>
          /\ ( CachedFor(obs'.request) # None =>
                 /\ pc' = "idle"
                 /\ ret' = CachedFor(obs'.request)
                 /\ obs'.requests = 0
                 /\ obs'.rate_slept = 0
                 /\ obs'.backoff = <<>>
                 /\ obs'.page_writes = 0
                 /\ UNCHANGED <<fs, _last_request_time, hist>> )
          /\ ( (obs.op = "fetch_page" /\ ret # None /\ obs'.request = obs.request) =>
                 /\ pc' = "idle"
                 /\ ret' # None
                 /\ obs'.requests = 0
                 /\ UNCHANGED hist )
      ]_vars

C2_Witness ==
    /\ pc = "idle" /\ calls = 2
    /\ obs.op = "fetch_page" /\ obs.hit /\ obs.requests = 0
    /\ hist.last_send # None
    /\ hist.last_send.some.wire.url = obs.request.url

\* C4: a fetch_page call on a cache miss that is answered 429, 429, 200
\* sleeps exactly twice for backoff, BACKOFF_START_SECONDS * 2^0 and then
\* BACKOFF_START_SECONDS * 2^1, issues exactly 3 requests, writes the 200
\* body to the page cache and returns it.
C4_Backoff429429200 ==
    ( pc = "idle" /\ obs.op = "fetch_page" /\ StatusCodesOf(obs) = <<429, 429, 200>> ) =>
        /\ obs.backoff = <<BACKOFF_START_SECONDS * 1, BACKOFF_START_SECONDS * 2>>
        /\ obs.requests = 3
        /\ obs.page_writes = 1
        /\ ret = Some(obs.responses[3].text)
        /\ LET cache_file == PageFile(PAGE_CACHE_DIR, obs.request.url)
           IN  Exists(fs, cache_file) /\ fs[cache_file] = write_text(obs.responses[3].text)

C4_Witness ==
    /\ pc = "idle" /\ obs.op = "fetch_page" /\ ~obs.hit
    /\ StatusCodesOf(obs) = <<429, 429, 200>>
    /\ obs.responses[3].text # <<>>

IsTransient(resp) == resp.kind = "error" \/ resp.status_code = 429 \/ resp.status_code >= 500

\* C5: fetch_page always terminates and issues at most MAX_RETRIES requests
\* in one call, whatever mixture of 429, 5xx and transport errors it meets:
\* once MAX_RETRIES attempts have failed it has returned None, with no
\* further attempt and nothing cached.
C5_AtMostMaxRetriesThenNone ==
    /\ [](obs.requests <= MAX_RETRIES)
    /\ []( ( /\ Len(obs.responses) = MAX_RETRIES
             /\ \A i \in 1..Len(obs.responses) : IsTransient(obs.responses[i]) )
           => ( pc = "idle" /\ ret = None /\ obs.requests = MAX_RETRIES
                /\ obs.page_writes = 0 ) )
    /\ ((pc # "idle") ~> (pc = "idle"))

C5_Witness ==
    /\ pc = "idle" /\ obs.op = "fetch_page" /\ ret = None
    /\ Len(obs.responses) = MAX_RETRIES
    /\ obs.responses[1].status_code = 500
    /\ obs.responses[2].kind = "error"
    /\ obs.responses[3].status_code = 429

\* C6: a 404, or another 4xx except 429, ends fetch_page at once: no retry,
\* no backoff sleep, the result is None and the page cache is not written;
\* a 429 is followed by a backoff sleep and, while attempts remain, a retry.
C6_PermanentClientErrorEndsCall ==
    [][ (pc = "await" /\ pc' # "await") =>
          LET resp == LastResponse(obs')
              permanent == /\ resp.kind = "response"
                           /\ 400 <= resp.status_code /\ resp.status_code < 500
                           /\ resp.status_code # 429
          IN  /\ permanent =>
                    /\ pc' = "idle"
                    /\ ret' = None
                    /\ obs'.requests = obs.requests
                    /\ obs'.backoff = obs.backoff
                    /\ obs'.page_writes = 0
                    /\ UNCHANGED <<fs, now>>
              /\ (resp.kind = "response" /\ resp.status_code = 429) =>
                    /\ obs'.backoff = Append(obs.backoff,
                                             BACKOFF_START_SECONDS * (2 ^ frame.attempt))
                    /\ (frame.attempt + 1 < MAX_RETRIES => pc' = "send")
      ]_vars

C6_Witness ==
    /\ pc = "idle" /\ obs.op = "fetch_page"
    /\ Len(obs.responses) = 2
    /\ obs.responses[1].status_code = 429
    /\ obs.responses[2].status_code = 403
    /\ ret = None

Max(a, b) == IF a >= b THEN a ELSE b

\* C7: between two consecutive requests of one scraper to the same host at
\* least REQUEST_DELAY_SECONDS pass: before every attempt the fetcher sleeps
\* for what is left of the delay since the last request to that host, and
\* for nothing when the delay has passed or the host was never asked; then
\* it records the time of the new request.
C7_MinimumDelayPerHost ==
    /\ hist.last_send # None =>
          LET s == hist.last_send.some
          IN  /\ s.elapsed = None => s.slept = 0
              /\ s.elapsed # None =>
                    /\ s.slept = Max(0, REQUEST_DELAY_SECONDS - s.elapsed.some)
                    /\ s.elapsed.some + s.slept >= REQUEST_DELAY_SECONDS
    /\ DOMAIN _last_request_time = DOMAIN hist.sent
    /\ \A h \in DOMAIN hist.sent : _last_request_time[h] = hist.sent[h]

C7_Witness ==
    /\ hist.last_send # None
    /\ hist.last_send.some.elapsed # None
    /\ hist.last_send.some.slept > 0
    /\ hist.last_send.some.slept < REQUEST_DELAY_SECONDS

\* two Optional[dict] arguments that make the same request
SameDict(d1, d2) ==
    \/ ~Truthy(d1) /\ ~Truthy(d2)
    \/ /\ Truthy(d1) /\ Truthy(d2)
       /\ {d1.some[2][i] : i \in 1..Len(d1.some[2])} = {d2.some[2][i] : i \in 1..Len(d2.some[2])}

\* C8: the page-cache key is the URL plus a canonical, key-order-independent
\* serialization of the query params and of the JSON body, so two calls
\* for one URL whose params or body differ never share a key, and a call
\* never gets the body cached for a call with other params or another
\* JSON body, also when both params and a JSON body are passed; two calls
\* that differ only in key order share the key.
C8_KeyCoversParamsAndBody ==
    ( pc = "idle" /\ obs.op = "fetch_page" /\ obs.hit ) =>
        LET key == BuildCacheKey(obs.request.url, obs.request.json_body, obs.request.params)
            writer == hist.writer[PageFile(PAGE_CACHE_DIR, key)]
        IN  /\ writer.url = obs.request.url
            /\ SameDict(writer.params, obs.request.params)
            /\ SameDict(writer.json_body, obs.request.json_body)

Occurrences(seq, x) == Cardinality({i \in 1..Len(seq) : seq[i] = x})

\* C9: fetch_and_extract(url) returns the cached extracted text without
\* fetching or parsing when there is one; on a miss with a successful fetch
\* it parses the HTML and stores the text under the URL before returning
\* it; so no URL's HTML is parsed more than once.
C9_ExtractedTextParsedOnce ==
    /\ (obs.op = "fetch_and_extract" /\ obs.text_hit) =>
          /\ obs.fetches = 0 /\ obs.requests = 0 /\ obs.parses = 0
          /\ obs.page_writes = 0 /\ obs.text_writes = 0
          /\ ret = _get_extracted_text(fs, obs.request.url)
    /\ (pc = "idle" /\ obs.op = "fetch_and_extract" /\ ~obs.text_hit) =>
          IF ret = None
          THEN obs.parses = 0 /\ obs.text_writes = 0
          ELSE /\ obs.parses = 1 /\ obs.text_writes = 1
               /\ Exists(fs, ExtractedFile(obs.request.url))
               /\ fs[ExtractedFile(obs.request.url)] = write_text(ret.some)
    /\ \A u \in Urls : Occurrences(hist.parsed, u) <= 1

C9_Witness ==
    /\ pc = "idle" /\ calls = 2
    /\ obs.op = "fetch_and_extract" /\ obs.text_hit
    /\ hist.parsed = <<obs.request.url>>


-----------------------------------------------------------------------------
(* The fetcher and the classifier driven together: SpecPipeline            *)

NextPipeline ==
    \/ \E r \in PlainRequests : fetch_page(r, REQUEST_DELAY_SECONDS)
    \/ \E u \in Urls : fetch_and_extract(u, REQUEST_DELAY_SECONDS)
    \/ SendRequest
    \/ \E resp \in Outcomes : ReceiveResponse(resp)
    \/ \E o \in ClassifierOptions : NewClassifier(o[1], o[2], o[3])
    \/ \E raw \in ClassifyRaws, page_text \in PageTexts : classify_page(raw, page_text)
    \/ \E response \in ApiResponses : ApiReturns(response)

SpecPipeline == Init /\ [][NextPipeline]_vars

\* the operation that ends with this step has missed on the key of the file
\* p that the step creates
MissedOn(p) ==
    LET \* the writes of the operation before the step: none when the step
        \* is the call itself
        before == IF calls' = calls + 1 THEN NoObs ELSE obs
    IN
    \/ p[1] = PAGE_CACHE_DIR /\ ~obs'.hit /\ obs'.page_writes = before.page_writes + 1
    \/ p[1] = EXTRACTED_CACHE_DIR /\ ~obs'.text_hit /\ obs'.text_writes = before.text_writes + 1
    \/ /\ p[1] = CLASSIFICATION_CACHE_DIR
       /\ Len(hist'.classified) = Len(hist.classified) + 1
       /\ hist'.classified[Len(hist'.classified)].outcome = "saved"

\* C11: in every sequence of fetch_page, fetch_and_extract and classify_page
\* operations a cache entry that exists is never overwritten or changed:
\* every step keeps every file of the cache with its content, and a file
\* that a step creates is one on whose key the operation in progress has
\* missed.
C11_CacheEntryNeverOverwritten ==
    [][ /\ \A p \in DOMAIN fs : p \in DOMAIN fs' /\ fs'[p] = fs[p]
        /\ \A p \in (DOMAIN fs') \ (DOMAIN fs) : MissedOn(p)
      ]_vars

\* fetch_and_extract found the page that an earlier fetch_page wrote, left
\* it as it was and wrote the extracted text, on which it had missed
C11_Witness ==
    /\ pc = "idle" /\ calls = 2
    /\ obs.op = "fetch_and_extract" /\ obs.hit /\ ~obs.text_hit
    /\ obs.page_writes = 0 /\ obs.text_writes = 1
    /\ PageFile(PAGE_CACHE_DIR, obs.request.url) \in DOMAIN fs
    /\ ExtractedFile(obs.request.url) \in DOMAIN fs

-----------------------------------------------------------------------------
(* Claims about the pre-filter and the truncation                          *)

\* a step in which classify_page is called
ClassifyCallStep == pc = "idle" /\ calls' = calls + 1 /\ obs'.op = "classify_page"

\* the call that the step made: the one classify_page is waiting in, or the
\* last one that returned
CallInProgress == pc' = "api"
LastClassified == hist'.classified[Len(hist'.classified)]
CallRaw == IF CallInProgress THEN frame'.raw ELSE LastClassified.raw

\* no keyword occurs in the lower-cased "title snippet"
MatchesNoKeyword(raw) ==
    \A i \in 1..Len(PREFILTER_KEYWORDS) :
        ~Contains(Lower(raw.title \o <<" ">> \o raw.snippet), Lower(PREFILTER_KEYWORDS[i]))

\* C12: with the pre-filter enabled a candidate whose title and snippet
\* match no keyword ends classify_page at once with no records:
\* prefilter_skipped grows by exactly 1, no other counter changes, and there
\* is no truncation, no cache lookup, no external call and no cache write;
\* with the pre-filter disabled every candidate goes on to the cache lookup.
C12_PrefilterGate ==
    [][ ClassifyCallStep =>
          LET self == classifier.some
          IN  /\ ( self.prefilter_enabled /\ MatchesNoKeyword(CallRaw) ) =>
                    /\ pc' = "idle"
                    /\ ret' = Returned(None, <<>>)
                    /\ Len(hist'.classified) = Len(hist.classified) + 1
                    /\ LastClassified.outcome = "skipped"
                    /\ LastClassified.text = None
                    /\ classifier'.some.stats =
                           [self.stats EXCEPT !.prefilter_skipped = @ + 1]
                    /\ hist'.api_sent = hist.api_sent
                    /\ UNCHANGED fs
              /\ ~self.prefilter_enabled =>
                    \/ CallInProgress /\ frame'.text # <<>>
                    \/ ~CallInProgress /\ LastClassified.outcome = "hit"
      ]_vars

\* a candidate without a keyword was skipped although the cache holds a
\* result for its page text
C12_Witness ==
    /\ pc = "idle" /\ classifier # None /\ classifier.some.prefilter_enabled
    /\ Len(hist.classified) = 2
    /\ hist.classified[1].outcome = "saved"
    /\ hist.classified[2].outcome = "skipped"
    /\ hist.classified[2].page_text = hist.classified[1].page_text
    /\ MatchesNoKeyword(hist.classified[2].raw)
    /\ classifier.some.stats.prefilter_skipped = 1

-----------------------------------------------------------------------------
(* truncate_text applied to a text and a budget, and again to what it      *)
(* returned: SpecTruncate                                                  *)

TruncAlphabet == {"a", " ", "LF"}

\* every text over the alphabet up to MaxLen characters
ShortTexts == UNION {[1..n -> TruncAlphabet] : n \in 0..MaxLen}

\* five lines of one word each
Header == <<"h", "LF", "h", "LF", "h", "LF", "h", "LF", "h", "LF">>

\* a line with a dollar value: "$5 billion for chips now"
DetailLine ==
    <<"$", "5", " ", "b", "i", "l", "l", "i", "o", "n", " ", "f", "o", "r", " ",
      "c", "h", "i", "p", "s", " ", "n", "o", "w">>

\* one line of n words
Body(n) == [i \in 1..(2 * n - 1) |-> IF i % 2 = 1 THEN "w" ELSE " "]

\* a page of 10 + n words with one detail line after its first five lines
LongText(n) == Header \o DetailLine \o <<"LF">> \o Body(n)

\* texts of more than 500 words with budgets around their word count and
\* around the word count of first chunk + separator + detail lines (506)
LongInputs ==
    { <<LongText(495), 504>>, <<LongText(495), 505>>, <<LongText(495), 506>>,
      <<LongText(500), 505>>, <<LongText(500), 506>>, <<LongText(500), 509>> }

TruncateInputs ==
    {<<t, b>> : t \in ShortTexts, b \in 0..MaxBudget} \cup LongInputs

InitTruncate ==
    /\ fs = EmptyFs
    /\ trace = <<>>
    /\ now = StartTime
    /\ _last_request_time = [h \in {} |-> 0]
    /\ pc = "idle"
    /\ \E in \in TruncateInputs :
          frame = [op |-> "truncate_text", text |-> in[1], max_tokens |-> in[2]]
    /\ ret = None
    /\ obs = NoObs
    /\ calls = 0
    /\ hist = [sent |-> [h \in {} |-> 0], last_send |-> None,
               writer |-> [p \in {} |-> None], parsed |-> <<>>,
               requests |-> 0, html_parses |-> 0, non2xx |-> 0, http_5xx |-> 0,
               api_sent |-> <<>>, classified |-> <<>>]
    /\ classifier = None
    /\ run = NoRun

\* text = truncate_text(text, max_tokens): the first call takes the page
\* text, a later one the text that the call before it returned
Truncate ==
    /\ frame.op = "truncate_text"
    /\ Len(trace) < 2
    /\ LET text == IF trace = <<>> THEN frame.text ELSE trace[Len(trace)].result
           result == truncate_text(text, frame.max_tokens)
       IN  /\ trace' = Append(trace, [op |-> "truncate_text", text |-> text,
                                      max_tokens |-> frame.max_tokens, result |-> result])
           /\ ret' = Some(result)
    /\ UNCHANGED <<fs, now, _last_request_time, pc, frame, obs, calls, hist, classifier, run>>

NextTruncate == Truncate

SpecTruncate == InitTruncate /\ [][NextTruncate]_vars

\* the number of whitespace-separated words of a text
WordCount(s) ==
    Cardinality({i \in 1..Len(s) : ~IsSpace(s[i]) /\ (i = 1 \/ IsSpace(s[i - 1]))})

\* C13: truncate_text returns the text unchanged when its word count is at
\* most the budget (exactly budget words included), and a text of at most
\* budget words when the word count is above the budget (budget + 1
\* included).
C13_TruncateWithinBudget ==
    \A i \in 1..Len(trace) :
        LET e == trace[i]
        IN  /\ WordCount(e.text) <= e.max_tokens => e.result = e.text
            /\ WordCount(e.text) > e.max_tokens => WordCount(e.result) <= e.max_tokens

\* a text of exactly budget + 1 words was cut, and one of more than 500
\* words came back as first chunk, separator and detail line
C13_Witness ==
    /\ trace # <<>>
    /\ \/ /\ WordCount(trace[1].text) = trace[1].max_tokens + 1
          /\ trace[1].max_tokens > 0
          /\ WordCount(trace[1].result) = trace[1].max_tokens
       \/ /\ WordCount(trace[1].text) > 500
          /\ WordCount(trace[1].result) = 506
          /\ trace[1].result # trace[1].text

\* C14: truncate_text is idempotent, truncate_text(truncate_text(t, b), b)
\* = truncate_text(t, b), so the text that is hashed for the classification
\* cache is the same when a truncated text is truncated again.
C14_TruncateIdempotent ==
    Len(trace) = 2 =>
        /\ trace[2].text = trace[1].result
        /\ trace[2].result = trace[1].result
        /\ content_hash(trace[2].result) = content_hash(trace[1].result)

\* a text above its budget was truncated and truncated again
C14_Witness ==
    /\ Len(trace) = 2
    /\ trace[1].result # trace[1].text
    /\ trace[2].result = trace[1].result
    /\ WordCount(trace[1].text) > 500

-----------------------------------------------------------------------------
(* Claims about the service's answer and the records built from it         *)

\* the structure that the prompt asks for: an object with a boolean is_tpd
\* and, when that is true, an object parent and a list children of objects
IsExpectedStructure(v) ==
    /\ v[1] = "dict"
    /\ HasKey(v, "is_tpd")
    /\ Get(v, "is_tpd", PyNone)[1] \in {"true", "false"}
    /\ Get(v, "is_tpd", PyNone)[1] = "true" =>
          /\ Get(v, "parent", PyNone)[1] = "dict"
          /\ Get(v, "children", PyNone)[1] = "list"
          /\ \A k \in 1..Len(Get(v, "children", PyNone)[2]) :
                Get(v, "children", PyNone)[2][k][1] = "dict"

\* the service answered, and its text does not parse or parses to something
\* else than the expected structure
Malformed(response) ==
    /\ response.kind = "message"
    /\ \/ _call_api(response) = None
       \/ ~IsExpectedStructure(_call_api(response).some)

\* C15: when the external call's response is not the expected structure
\* (text that does not parse, or JSON of the wrong shape), classify_page
\* yields no records, nothing is written to the classification cache by
\* that call, and no later classification of the same text is served the
\* bad result from the cache.
C15_MalformedResponseConfined ==
    \A i \in 1..Len(hist.classified) :
        LET call == hist.classified[i]
        IN  ( call.response # None /\ Malformed(call.response.some) ) =>
                /\ call.ret = Returned(None, <<>>)
                /\ call.outcome = "failed"
                /\ call.after = call.before
                /\ \A j \in (i + 1)..Len(hist.classified) :
                      ( hist.classified[j].text = call.text
                        /\ hist.classified[j].outcome = "hit" ) =>
                            IsExpectedStructure(hist.classified[j].result.some)

-----------------------------------------------------------------------------
(* _parse_result applied to a result, a candidate and a counter: SpecParse *)

\* country codes of a parent with their lower-case form; the code is absent
\* from the parent in the last one, and the default "USA" applies
ParentCodes ==
    { [given |-> TRUE, code |-> <<"K", "O", "R">>, lower |-> <<"k", "o", "r">>],
      [given |-> TRUE, code |-> <<"J", "P", "N">>, lower |-> <<"j", "p", "n">>],
      [given |-> FALSE, code |-> <<"U", "S", "A">>, lower |-> <<"u", "s", "a">>] }

\* the status of a parent: one of DealStatus, one that is not, none
ParentStatuses ==
    { Some(<<"A", "C", "T", "I", "V", "E">>), Some(<<"S", "I", "G", "N", "E", "D">>), None }

\* per-run counters with their decimal text
Counters == { [n |-> 1, text |-> <<"1">>], [n |-> 12, text |-> <<"1", "2">>] }

ChildA ==
    <<"dict", << <<<<"str", "title">>, <<"str", <<"A">>>>>>,
                 <<<<"str", "parties">>, <<"list", <<<<"str", <<"P">>>>>>>>>>,
                 <<<<"str", "deal_value_usd">>, <<"int", 5>>>>,
                 <<<<"str", "status">>, <<"str", <<"A", "C", "T", "I", "V", "E">>>>>> >>>>

ChildB ==
    <<"dict", << <<<<"str", "title">>, <<"str", <<"B">>>>>>,
                 <<<<"str", "sector">>, <<"str", <<"A", "I">>>>>> >>>>

\* an entry whose status is not one of DealStatus
ChildCommitted ==
    <<"dict", << <<<<"str", "title">>, <<"str", <<"X">>>>>>,
                 <<<<"str", "parties">>, <<"list", <<<<"str", <<"A", "W", "S">>>>>>>>>>,
                 <<<<"str", "deal_value_usd">>, <<"int", 5>>>>,
                 <<<<"str", "status">>, <<"str", <<"C", "O", "M", "M", "I", "T", "T", "E", "D">>>>>> >>>>

\* an entry that is a string, not an object
ChildText == <<"str", <<"x">>>>

ValidChildren == {ChildA, ChildB}

ChildEntries == {ChildA, ChildB, ChildCommitted, ChildText}

ChildLists == UNION {[1..n -> ChildEntries] : n \in 0..MaxChildren}

\* the result {"is_tpd": true, "parent": {...}, "children": [...]}
ResultOf(cc, status, children) ==
    <<"dict",
      << <<<<"str", "is_tpd">>, <<"true">>>>,
         <<<<"str", "parent">>,
           <<"dict", << <<<<"str", "title">>, <<"str", <<"T">>>>>> >>
                        \o (IF cc.given THEN << <<<<"str", "country_code">>, <<"str", cc.code>>>> >>
                            ELSE <<>>)
                        \o (IF status # None THEN << <<<<"str", "status">>, <<"str", status.some>>>> >>
                            ELSE <<>>) >> >>,
         <<<<"str", "children">>, <<"list", children>>>> >> >>

InitParse ==
    /\ fs = EmptyFs
    /\ trace = <<>>
    /\ now = StartTime
    /\ _last_request_time = [h \in {} |-> 0]
    /\ pc = "idle"
    /\ \E cc \in ParentCodes, status \in ParentStatuses, children \in ChildLists,
          counter \in Counters, raw \in ClassifyRaws :
          frame = [op |-> "_parse_result", cc |-> cc, status |-> status, children |-> children,
                   raw |-> raw, counter |-> counter]
    /\ ret = None
    /\ obs = NoObs
    /\ calls = 0
    /\ hist = [sent |-> [h \in {} |-> 0], last_send |-> None,
               writer |-> [p \in {} |-> None], parsed |-> <<>>,
               requests |-> 0, html_parses |-> 0, non2xx |-> 0, http_5xx |-> 0,
               api_sent |-> <<>>, classified |-> <<>>]
    /\ classifier = None
    /\ run = NoRun

\* self._parse_result(result, raw, parent_id_prefix, deal_counter)
ParseResult ==
    /\ frame.op = "_parse_result"
    /\ trace = <<>>
    /\ LET data == ResultOf(frame.cc, frame.status, frame.children)
           result == _parse_result(data, frame.raw, <<"t", "p", "d">>, frame.counter.n)
       IN  /\ trace' = <<[op |-> "_parse_result", cc |-> frame.cc, status |-> frame.status,
                           children |-> frame.children, raw |-> frame.raw,
                           counter |-> frame.counter, data |-> data, result |-> result]>>
           /\ ret' = result
    /\ UNCHANGED <<fs, now, _last_request_time, pc, frame, obs, calls, hist, classifier, run>>

NextParse == ParseResult

SpecParse == InitParse /\ [][NextParse]_vars

\* the id of the parent of a parse: tpd-<code in lower case>-<counter>
ExpectedParentId(e) == <<"t", "p", "d", "-">> \o e.cc.lower \o <<"-">> \o e.counter.text

\* k as three digits, k < 10
ThreeDigits(k) == <<"0", "0", DigitChars[k + 1]>>

\* the title of a child entry that is an object
EntryTitle(entry) == entry[2][1][2][2]

\* record is the child record of the k-th entry of the parse e
IsChildOfEntry(record, e, k) ==
    /\ record.id = ExpectedParentId(e) \o <<"-">> \o ThreeDigits(k)
    /\ record.parent_id = Some(ExpectedParentId(e))
    /\ record.country = e.cc.code
    /\ record.title = EntryTitle(e.children[k])

RECURSIVE EntriesIn(_, _, _)
EntriesIn(e, entries, k) ==
    IF k > Len(e.children) THEN <<>>
    ELSE (IF e.children[k] \in entries THEN <<k>> ELSE <<>>) \o EntriesIn(e, entries, k + 1)

\* the parse returned the parent (when the parent's own status is valid)
\* and the records of exactly the valid entries, in input order, each with
\* the sequence number of its entry
SkippedOnly(e) ==
    LET r == e.result
        kept == EntriesIn(e, ValidChildren, 1)
    IN  /\ ~r.raised
        /\ (e.status # Some(<<"S", "I", "G", "N", "E", "D">>)) => r.parent # None
        /\ Len(r.children) = Len(kept)
        /\ \A m \in 1..Len(kept) : IsChildOfEntry(r.children[m], e, kept[m])

\* C17: a child entry that fails validation is skipped without aborting the
\* parse: _parse_result still returns the parent and every other child, in
\* input order, each with the sequence number of its position in the
\* result's child list.
C17_InvalidChildSkipped ==
    \A i \in 1..Len(trace) :
        ( \E k \in 1..Len(trace[i].children) : trace[i].children[k] \notin ValidChildren )
            => SkippedOnly(trace[i])

\* the same for entries that are objects: an entry whose fields the Deal
\* model rejects is skipped
InvalidObjectChildSkipped ==
    \A i \in 1..Len(trace) :
        ( /\ \E k \in 1..Len(trace[i].children) : trace[i].children[k] \notin ValidChildren
          /\ \A k \in 1..Len(trace[i].children) : trace[i].children[k] # ChildText )
            => SkippedOnly(trace[i])

\* C18: _parse_result on a relevant result whose parent has the status
\* "SIGNED" returns a parent record with the parent's country_code as
\* country and the type TRADE, and on a relevant result with two children
\* of status "COMMITTED" returns two child records with the children's
\* deal values and parties and a parent_id.
C18_SignedParentCommittedChildren ==
    \A i \in 1..Len(trace) :
        LET e == trace[i]
            r == e.result
        IN  /\ ( e.status = Some(<<"S", "I", "G", "N", "E", "D">>) /\ e.children = <<>> ) =>
                  /\ ~r.raised
                  /\ r.parent # None
                  /\ r.parent.some.country = e.cc.code
                  /\ r.parent.some.type = "TRADE"
                  /\ r.children = <<>>
            /\ ( e.status = Some(<<"S", "I", "G", "N", "E", "D">>)
                 /\ e.children = <<ChildCommitted, ChildCommitted>> ) =>
                  /\ ~r.raised
                  /\ Len(r.children) = 2
                  /\ \A m \in 1..Len(r.children) :
                        /\ r.children[m].deal_value_usd = <<"int", 5>>
                        /\ r.children[m].parties = <<"list", <<<<"str", <<"A", "W", "S">>>>>>>>
                        /\ r.children[m].parent_id # None

-----------------------------------------------------------------------------
(* estimate_cost of a classifier with given counters: SpecCost             *)

\* model names: DEFAULT_MODEL, a sonnet, PREMIUM_MODEL, and a name that
\* holds both "sonnet" and "haiku"
ModelNames ==
    { <<"claude-3-5-", "haiku", "-20241022">>,
      <<"claude-", "sonnet", "-4">>,
      <<"claude-", "opus", "-4-5-20250220">>,
      <<"my-", "sonnet", "-or-", "haiku">> }

InitCost ==
    /\ fs = EmptyFs
    /\ trace = <<>>
    /\ now = StartTime
    /\ _last_request_time = [h \in {} |-> 0]
    /\ pc = "idle"
    /\ \E model \in ModelNames, batch_mode \in BOOLEAN, n \in 0..MaxNewCalls,
          hits \in 0..MaxCounter, skipped \in 0..MaxCounter :
          frame = [op |-> "estimate_cost",
                   self |-> [model |-> model, batch_mode |-> batch_mode,
                             stats |-> [prefilter_skipped |-> skipped, cache_hits |-> hits,
                                        new_api_calls |-> n, estimated_cost_usd |-> 0]]]
    /\ ret = None
    /\ obs = NoObs
    /\ calls = 0
    /\ hist = [sent |-> [h \in {} |-> 0], last_send |-> None,
               writer |-> [p \in {} |-> None], parsed |-> <<>>,
               requests |-> 0, html_parses |-> 0, non2xx |-> 0, http_5xx |-> 0,
               api_sent |-> <<>>, classified |-> <<>>]
    /\ classifier = None
    /\ run = NoRun

\* classifier.estimate_cost()
EstimateCost ==
    /\ frame.op = "estimate_cost"
    /\ Len(trace) < 2
    /\ LET out == estimate_cost(frame.self)
       IN  /\ trace' = Append(trace, [op |-> "estimate_cost", self |-> frame.self,
                                      cost |-> out.cost, after |-> out.self])
           /\ frame' = [frame EXCEPT !.self = out.self]
           /\ ret' = Some(out.cost)
    /\ UNCHANGED <<fs, now, _last_request_time, pc, obs, calls, hist, classifier, run>>

\* self.stats.cache_hits += 1 (classify_page on a cache hit)
CountCacheHit ==
    /\ frame.op = "estimate_cost"
    /\ frame.self.stats.cache_hits < MaxCounter + 1
    /\ frame' = [frame EXCEPT !.self.stats.cache_hits = @ + 1]
    /\ UNCHANGED <<fs, trace, now, _last_request_time, pc, ret, obs, calls, hist, classifier, run>>

\* self.stats.prefilter_skipped += 1 (classify_page on a pre-filter reject)
CountPrefilterSkip ==
    /\ frame.op = "estimate_cost"
    /\ frame.self.stats.prefilter_skipped < MaxCounter + 1
    /\ frame' = [frame EXCEPT !.self.stats.prefilter_skipped = @ + 1]
    /\ UNCHANGED <<fs, trace, now, _last_request_time, pc, ret, obs, calls, hist, classifier, run>>

NextCost ==
    \/ EstimateCost
    \/ CountCacheHit
    \/ CountPrefilterSkip

SpecCost == InitCost /\ [][NextCost]_vars

\* the tier of a model name and its rate per call in units of $0.0001
TierOf(model) ==
    IF \E i \in 1..Len(model) : model[i] = "haiku" THEN "haiku"
    ELSE IF \E i \in 1..Len(model) : model[i] = "sonnet" THEN "sonnet"
    ELSE "other"

RateOf(tier) == IF tier = "haiku" THEN 10 ELSE IF tier = "sonnet" THEN 50 ELSE 300

\* C19: the estimated cost is new_api_calls times the rate of the model's
\* tier (haiku < sonnet < any other model), halved in batch mode; it is
\* zero for zero new calls and does not change when cache_hits or
\* prefilter_skipped change.
C19_CostFromNewCallsOnly ==
    /\ RateOf("haiku") < RateOf("sonnet") /\ RateOf("sonnet") < RateOf("other")
    /\ \A i \in 1..Len(trace) :
          LET e == trace[i]
              n == e.self.stats.new_api_calls
          IN  /\ 2 * e.cost = n * RateOf(TierOf(e.self.model))
                                 * (IF e.self.batch_mode THEN 1 ELSE 2)
              /\ n = 0 => e.cost = 0
              /\ e.after.stats.estimated_cost_usd = e.cost
              /\ e.after.stats.new_api_calls = n
    /\ \A i, j \in 1..Len(trace) : trace[i].cost = trace[j].cost

\* the cost of three new calls in batch mode was estimated twice, cache
\* hits and pre-filter skips having been counted in between
C19_Witness ==
    /\ Len(trace) = 2
    /\ trace[1].self.stats.new_api_calls = 3
    /\ trace[1].self.batch_mode
    /\ trace[1].cost > 0
    /\ trace[2].self.stats.cache_hits > trace[1].self.stats.cache_hits
    /\ trace[2].self.stats.prefilter_skipped > trace[1].self.stats.prefilter_skipped

-----------------------------------------------------------------------------
(* Claims about the failures of a run                                      *)

\* the classify_page calls of the current run
CallsOfRun == (run.base.classified + 1)..Len(hist.classified)

\* the final output has an error for this source
ErrorRecorded(source_url) ==
    \E k \in 1..Len(run.output.some.errors) : run.output.some.errors[k].source = source_url

\* C20: every per-item failure (a fetch that ends in "no content", a
\* malformed classification response, an exception while classifying a
\* candidate) is recorded in the error list of the final output, and none
\* of them aborts the run: every candidate is processed.
C20_ItemFailuresRecorded ==
    run.phase = "done" =>
        /\ run.idx = Len(deals_to_process(run)) + 1
        /\ Cardinality(CallsOfRun) = Len(deals_to_process(run))
        /\ \A d \in 1..Len(run.all_raw_deals) :
              \* fetch_and_extract returned None for the candidate's page
              ( run.all_raw_deals[d].snippet = <<>>
                /\ _get_extracted_text(fs, run.all_raw_deals[d].source_url) = None )
                  => ErrorRecorded(run.all_raw_deals[d].source_url)
        /\ \A i \in CallsOfRun :
              ( \/ hist.classified[i].ret.raised
                \/ ( hist.classified[i].response # None
                     /\ Malformed(hist.classified[i].response.some) ) )
                  => ErrorRecorded(hist.classified[i].raw.source_url)

\* the part of C20 about exceptions: an exception that leaves classify_page
\* is recorded with the candidate's URL, and every candidate is processed
ExceptionsRecordedRunGoesOn ==
    run.phase = "done" =>
        /\ run.idx = Len(deals_to_process(run)) + 1
        /\ Cardinality(CallsOfRun) = Len(deals_to_process(run))
        /\ \A i \in CallsOfRun :
              hist.classified[i].ret.raised => ErrorRecorded(hist.classified[i].raw.source_url)

-----------------------------------------------------------------------------
(* Claims about the credentials of a run                                   *)

\* the run in progress (or the last one) was started without ANTHROPIC_API_KEY
KeyMissing == run.args # None /\ ~run.args.some.api_key

\* C21: when ANTHROPIC_API_KEY is missing a classification run is fatal at
\* startup: it aborts before any candidate is processed, and it never runs
\* to completion and writes output.
C21_MissingKeyFatalAtStartup ==
    KeyMissing =>
        /\ run.phase # "done"
        /\ run.output = None
        /\ CallsOfRun = {}
        /\ run.deal_counter = 0

\* what holds of a run without the key: it sends nothing to the service,
\* and it ends at the first candidate that needs the service
MissingKeyNoExternalCall ==
    KeyMissing =>
        /\ Len(hist.api_sent) = run.base.api_calls
        /\ \A i \in CallsOfRun : hist.classified[i].outcome \in {"skipped", "hit"}
        /\ run.phase = "exited" => run.output = None

-----------------------------------------------------------------------------
(* The three namespaces of the cache store, with what may lie in their     *)
(* directories, driven directly: SpecStore                                 *)

CacheNamespaces == {PAGE_CACHE_DIR, EXTRACTED_CACHE_DIR, CLASSIFICATION_CACHE_DIR}

\* one key for the classifications and the extracted texts: as a string it is
\* the first key of the pages, so the three digests coincide
SharedKey == <<"k1">>

StoreContents == {<<"a">>, <<"a", "CR", "LF", "b">>}

StoreResults ==
    { <<"dict", << <<<<"str", "is_tpd">>, <<"false">>>> >>>>,
      <<"dict", << <<<<"int", "1">>, <<"str", <<"x">>>>>> >>>> }

\* what the file system may hold when the operations start: entries of the
\* three namespaces, a subdirectory of the pages with a file in it, an empty
\* subdirectory, the directory of the pages made with nothing in it
NestedFile == <<PAGE_CACHE_DIR, "subdir", <<"nested">>, ".txt">>
EmptySubdir == <<PAGE_CACHE_DIR, "empty">>

InitialEntries ==
    [p \in { PageFile(PAGE_CACHE_DIR, <<"k1">>), PageFile(PAGE_CACHE_DIR, <<"k2">>),
             NestedFile, EmptySubdir, <<PAGE_CACHE_DIR>>,
             ExtractedFile(SharedKey),
             ClassificationFile(CLASSIFICATION_CACHE_DIR, SharedKey) } |->
        IF Len(p) = 3 /\ p[3] = ".json"
        THEN json_dumps(<<"dict", << <<<<"str", "is_tpd">>, <<"true">>>> >>>>)
        ELSE IF Len(p) >= 3 THEN <<"y">> ELSE <<>>]

InitialStores == {[p \in S |-> InitialEntries[p]] : S \in SUBSET (DOMAIN InitialEntries)}

InitStore ==
    /\ fs \in InitialStores
    /\ trace = <<>>
    /\ now = StartTime
    /\ _last_request_time = [h \in {} |-> 0]
    /\ pc = "idle"
    /\ frame = IdleFrame
    /\ ret = None
    /\ obs = NoObs
    /\ calls = 0
    /\ hist = [sent |-> [h \in {} |-> 0], last_send |-> None,
               writer |-> [p \in {} |-> None], parsed |-> <<>>,
               requests |-> 0, html_parses |-> 0, non2xx |-> 0, http_5xx |-> 0,
               api_sent |-> <<>>, classified |-> <<>>]
    /\ classifier = None
    /\ run = NoRun

SaveExtracted(url, text) ==
    /\ Len(trace) < MaxOps
    /\ fs' = _save_extracted_text(fs, url, text)
    /\ trace' = Append(trace, [op |-> "save_extracted", dir |-> EXTRACTED_CACHE_DIR,
                               key |-> url, value |-> text, result |-> None])
    /\ FetcherUnchanged

GetExtracted(url) ==
    /\ Len(trace) < MaxOps
    /\ trace' = Append(trace, [op |-> "get_extracted", dir |-> EXTRACTED_CACHE_DIR,
                               key |-> url, value |-> None,
                               result |-> _get_extracted_text(fs, url)])
    /\ UNCHANGED fs
    /\ FetcherUnchanged

ClearCache(cache_dir) ==
    /\ Len(trace) < MaxOps
    /\ fs' = clear_cache(fs, cache_dir).files
    /\ trace' = Append(trace, [op |-> "clear_cache", dir |-> cache_dir, key |-> <<>>,
                               value |-> None,
                               count |-> clear_cache(fs, cache_dir).count])
    /\ FetcherUnchanged

NextStore ==
    \/ \E k \in CacheKeys, c \in StoreContents : SavePage(PAGE_CACHE_DIR, k, c)
    \/ \E k \in CacheKeys : GetPage(PAGE_CACHE_DIR, k)
    \/ \E r \in StoreResults : SaveClassification(CLASSIFICATION_CACHE_DIR, SharedKey, r)
    \/ GetClassification(CLASSIFICATION_CACHE_DIR, SharedKey)
    \/ \E t \in StoreContents : SaveExtracted(SharedKey, t)
    \/ GetExtracted(SharedKey)
    \/ \E d \in CacheNamespaces : ClearCache(d)

SpecStore == InitStore /\ [][NextStore]_vars

\* the step is a call of clear_cache(cache_dir)
ClearStep(cache_dir) ==
    /\ Len(trace') = Len(trace) + 1
    /\ trace'[Len(trace')].op = "clear_cache"
    /\ trace'[Len(trace')].dir = cache_dir

\* the files directly inside a directory
FilesDirectlyIn(files, cache_dir) == {p \in DOMAIN files : Len(p) = 3 /\ p[1] = cache_dir}

\* everything in the subdirectories of a directory
NestedIn(files, cache_dir) == {p \in DOMAIN files : p[1] = cache_dir /\ Len(p) \in {2, 4}}

\* every get for a key of the namespace is a miss
AllMiss(files, cache_dir) ==
    /\ \A k \in CacheKeys : get_cached_page(files, cache_dir, k) = None
    /\ \A k \in CacheKeys : get_cached_classification(files, cache_dir, k) = None
    /\ cache_dir = EXTRACTED_CACHE_DIR =>
          \A k \in CacheKeys : _get_extracted_text(files, k) = None

\* C22: clear_cache(dir) deletes exactly the files directly inside dir and
\* returns their number: the subdirectories and everything nested in them
\* stay as they are, as does everything outside dir; the result is 0 when dir
\* is empty or does not exist; and after it every get for a key of that
\* namespace is a miss.
C22_ClearDeletesTopLevelFiles ==
    [][ \A d \in CacheNamespaces : ClearStep(d) =>
          /\ trace'[Len(trace')].count = Cardinality(FilesDirectlyIn(fs, d))
          /\ FilesDirectlyIn(fs', d) = {}
          /\ \A p \in (DOMAIN fs) \ FilesDirectlyIn(fs, d) :
                p \in DOMAIN fs' /\ fs'[p] = fs[p]
          /\ NestedIn(fs', d) = NestedIn(fs, d)
          /\ \A p \in (DOMAIN fs') \ (DOMAIN fs) : p = <<d>>
          /\ DirExists(fs', d) = DirExists(fs, d)
          /\ (FilesDirectlyIn(fs, d) = {}) => (trace'[Len(trace')].count = 0 /\ fs' = fs)
          /\ AllMiss(fs', d)
      ]_vars

\* clear_cache of the pages returned 2 with two files and a subdirectory
\* holding a file in the directory; the subdirectory and its file are there
C22_Witness ==
    /\ Len(trace) >= 1
    /\ trace[Len(trace)].op = "clear_cache"
    /\ trace[Len(trace)].dir = PAGE_CACHE_DIR
    /\ trace[Len(trace)].count = 2
    /\ NestedFile \in DOMAIN fs
    /\ FilesDirectlyIn(fs, PAGE_CACHE_DIR) = {}


-----------------------------------------------------------------------------
(* Claims about gets, saves and namespaces                                 *)

IsGet(e) == e.op \in {"get_page", "get_classification", "get_extracted"}

SaveOf(op) ==
    IF op = "get_page" THEN "save_page"
    ELSE IF op = "get_classification" THEN "save_classification" ELSE "save_extracted"

\* the file of the entry that an operation of the trace is about
FileOf(e) ==
    IF e.op \in {"get_page", "save_page"} THEN PageFile(e.dir, e.key)
    ELSE IF e.op \in {"get_classification", "save_classification"}
         THEN ClassificationFile(e.dir, e.key)
         ELSE ExtractedFile(e.key)

\* operation i saves the entry that the get g reads, or clears its namespace
Touches(i, g) ==
    \/ trace[i].op = SaveOf(g.op) /\ SameEntry(trace[i], g)
    \/ trace[i].op = "clear_cache" /\ trace[i].dir = g.dir

\* the last operation before j that touches the entry of the get at j
LastTouch(j) == CHOOSE i \in 1..(j - 1) :
                    Touches(i, trace[j]) /\ \A m \in (i + 1)..(j - 1) : ~Touches(m, trace[j])

\* what the get at j returns is what a get of the same entry returned
\* before the operation between them, which was about another entry
SameAsBefore(j) ==
    ( /\ j >= 3
      /\ trace[j - 2].op = trace[j].op
      /\ SameEntry(trace[j - 2], trace[j])
      /\ IsSave(trace[j - 1]) \/ trace[j - 1].op = "save_extracted"
      /\ FileOf(trace[j - 1]) # FileOf(trace[j]) )
        => trace[j].result = trace[j - 2].result

\* C23: a get for a key that was never saved, or was cleared, returns None;
\* a save to a key that has a value overwrites it: a get returns the value
\* of the most recent save to that key; and a save leaves the entries
\* under other keys as they were.
C23_GetReturnsMostRecentSave ==
    \A j \in 1..Len(trace) : IsGet(trace[j]) =>
        /\ IF \E i \in 1..(j - 1) : Touches(i, trace[j])
           THEN IF trace[LastTouch(j)].op = "clear_cache"
                THEN trace[j].result = None
                ELSE trace[j].result = Some(trace[LastTouch(j)].value)
           ELSE ( /\ FileOf(trace[j]) \notin DOMAIN fs
                  /\ \A m \in (j + 1)..Len(trace) : ~Touches(m, trace[j]) )
                    => trace[j].result = None
        /\ SameAsBefore(j)

\* what the files give back of a value: the text with its line ends
\* translated, the result with its keys as strings
ReadBack(e) ==
    IF e.op = "save_classification" THEN json_loads(json_dumps(e.value))
    ELSE read_text(write_text(e.value))

\* the part of C23 that holds: a miss for a key never saved or cleared, and
\* after saves what the file of the most recent save reads back as
GetReadsBackMostRecentSave ==
    \A j \in 1..Len(trace) : IsGet(trace[j]) =>
        /\ IF \E i \in 1..(j - 1) : Touches(i, trace[j])
           THEN IF trace[LastTouch(j)].op = "clear_cache"
                THEN trace[j].result = None
                ELSE trace[j].result = Some(ReadBack(trace[LastTouch(j)]))
           ELSE ( /\ FileOf(trace[j]) \notin DOMAIN fs
                  /\ \A m \in (j + 1)..Len(trace) : ~Touches(m, trace[j]) )
                    => trace[j].result = None
        /\ SameAsBefore(j)


\* the entries of a namespace with their content
EntriesOf(files, cache_dir) ==
    [p \in {q \in DOMAIN files : q[1] = cache_dir} |-> files[p]]

\* the namespace that a step saves to or clears
NamespaceOfStep == trace'[Len(trace')].dir

\* a step that is a save or a clear
SaveOrClearStep ==
    /\ Len(trace') = Len(trace) + 1
    /\ trace'[Len(trace')].op \in {"save_page", "save_classification", "save_extracted",
                                   "clear_cache"}

\* C24: the three namespaces (pages, extracted text, classifications) are
\* isolated: a save or a clear in one namespace never adds, changes or
\* removes an entry of another namespace, also when the digests of the keys
\* coincide, as they do for the same URL in the pages and the extracted
\* texts.
C24_NamespacesIsolated ==
    [][ SaveOrClearStep =>
          \A d \in CacheNamespaces \ {NamespaceOfStep} :
              EntriesOf(fs', d) = EntriesOf(fs, d)
      ]_vars

\* the three namespaces hold an entry under the same digest, each with its
\* own content, and the last operation cleared the pages
C24_Witness ==
    /\ Len(trace) = 3
    /\ trace[1].op = "save_extracted" /\ trace[1].key = SharedKey
    /\ trace[2].op = "save_page" /\ trace[2].key = SharedKey
    /\ trace[2].value # trace[1].value
    /\ trace[3].op = "clear_cache" /\ trace[3].dir = PAGE_CACHE_DIR
    /\ url_hash(trace[1].key) = url_hash(trace[2].key)
    /\ ExtractedFile(SharedKey) \in DOMAIN fs
    /\ fs[ExtractedFile(SharedKey)] = write_text(trace[1].value)
    /\ PageFile(PAGE_CACHE_DIR, SharedKey) \notin DOMAIN fs
    /\ ClassificationFile(CLASSIFICATION_CACHE_DIR, SharedKey) \in DOMAIN fs


-----------------------------------------------------------------------------
(* Claims about the items of a run's output                                *)

Items == run.output.some.items

\* C25: in the items a run writes to its output every child record (its
\* parent_id is not null) references the id of a parent record (parent_id
\* null) that is among the items too, also when several pages yield a
\* parent for the same country.
C25_ChildrenReferenceParents ==
    run.output # None =>
        \A i \in 1..Len(Items) : Items[i].parent_id # None =>
            \E j \in 1..Len(Items) :
                Items[j].parent_id = None /\ Items[j].id = Items[i].parent_id.some

\* C27: no record in a run's output has two source_documents with the same
\* URL, also when the same page URL occurs more than once among the
\* candidates and several candidates yield a parent for the same country.
C27_NoDuplicateSourceDocuments ==
    run.output # None =>
        \A i \in 1..Len(Items) :
            \A a, b \in 1..Len(Items[i].source_documents) :
                Items[i].source_documents[a].url = Items[i].source_documents[b].url => a = b


-----------------------------------------------------------------------------
(* The classification loop of main() over given candidates: SpecLoop       *)

KoreaUrl == <<"https://", "a.gov", "/1">>
JapanUrl == <<"https://", "a.gov", "/2">>

\* the articles of the two pages as the site served them
LoopBodies ==
    KoreaUrl :> <<"<s>", "K", "o", "r", "e", "a", " ", "d", "e", "a", "l">>
    @@ JapanUrl :> <<"<s>", "J", "a", "p", "a", "n", " ", "d", "e", "a", "l">>

\* the candidate that _scrape_listing appends for a page it has fetched
LoopRaw(url, title) ==
    RawDeal(title, url, <<>>, Take(extract_text_from_html(LoopBodies[url]), 1000), <<>>,
            <<"w", "h", "i", "t", "e", "h", "o", "u", "s", "e">>)

LoopRaws ==
    { LoopRaw(KoreaUrl, <<"K", "o", "r", "e", "a", " ", "A", "I", " ", "d", "e", "a", "l">>),
      LoopRaw(JapanUrl, <<"J", "a", "p", "a", "n", " ", "A", "I", " ", "d", "e", "a", "l">>) }

\* the lists of candidates: a page may occur more than once
CandidateLists == UNION {[1..n -> LoopRaws] : n \in 1..MaxCandidates}

\* the cache after the fetch phase: the page and the extracted text of both
\* articles
LoopFs ==
    [p \in {PageFile(PAGE_CACHE_DIR, u) : u \in DOMAIN LoopBodies}
             \cup {ExtractedFile(u) : u \in DOMAIN LoopBodies} |->
        LET u == p[2][2]
        IN  IF p[1] = PAGE_CACHE_DIR THEN write_text(LoopBodies[u])
            ELSE write_text(extract_text_from_html(LoopBodies[u]))]

\* results of the service: a parent for "KOR" with two children, a parent
\* whose country code is "KOR-1" with one child, a parent for "KOR" whose
\* status is not one of DealStatus with one child
LoopResults ==
    { ResultOf([given |-> TRUE, code |-> <<"K", "O", "R">>], None, <<ChildA, ChildB>>),
      ResultOf([given |-> TRUE, code |-> <<"K", "O", "R", "-", "1">>], None, <<ChildA>>),
      ResultOf([given |-> TRUE, code |-> <<"K", "O", "R">>],
               Some(<<"S", "I", "G", "N", "E", "D">>), <<ChildB>>) }

LoopApiResponses == {Message(<<JsonLine(v)>>) : v \in LoopResults} \cup {Message(<<ProseLine>>)}

\* main() when scraper.scrape() has returned the candidates
InitLoop ==
    /\ fs = LoopFs
    /\ trace = <<>>
    /\ now = StartTime
    /\ _last_request_time = [h \in {} |-> 0]
    /\ pc = "idle"
    /\ frame = IdleFrame
    /\ ret = None
    /\ obs = NoObs
    /\ calls = 0
    /\ hist = [sent |-> [h \in {} |-> 0], last_send |-> None,
               writer |-> [p \in {} |-> None], parsed |-> <<>>,
               requests |-> 0, html_parses |-> 0, non2xx |-> 0, http_5xx |-> 0,
               api_sent |-> <<>>, classified |-> <<>>]
    /\ classifier = None
    /\ \E deals \in CandidateLists :
          run = [NoRun EXCEPT !.n = 1, !.phase = "scraped",
                              !.args = Some([country |-> None, api_key |-> TRUE, clear_cache |-> FALSE]),
                              !.all_raw_deals = deals]

NextLoop ==
    \/ StartClassification
    \/ ClassifyNext
    \/ \E response \in LoopApiResponses : ApiReturns(response)
    \/ ClassifyDone
    \/ Finish

SpecLoop == InitLoop /\ [][NextLoop]_vars

\* C26: all record ids in the items of one run's output are pairwise
\* distinct: the counter of the run is increased for every candidate before
\* it is classified, so the i-th candidate is classified with counter i, and
\* the ids of two items are different.
C26_IdsPairwiseDistinct ==
    /\ \A i \in CallsOfRun : hist.classified[i].deal_counter = i - run.base.classified
    /\ run.output # None =>
          \A i, j \in 1..Len(Items) : Items[i].id = Items[j].id => i = j

\* the output holds the parent "tpd-kor-1-2" of the second candidate (country
\* code "KOR-1") and the second child "tpd-kor-1-002" of the first (country
\* code "KOR")
C26_Witness ==
    /\ run.output # None
    /\ \E i, j \in 1..Len(Items) :
          /\ Items[i].id = <<"t", "p", "d", "-", "k", "o", "r", "-", "1", "-", "2">>
          /\ Items[i].parent_id = None
          /\ Items[j].id = <<"t", "p", "d", "-", "k", "o", "r", "-", "1", "-", "0", "0", "2">>
          /\ Items[j].parent_id = Some(<<"t", "p", "d", "-", "k", "o", "r", "-", "1">>)


-----------------------------------------------------------------------------
(* Claims about the deduplication of calls by content                      *)

\* calls i and j are for candidates with different source URLs and send the
\* same text, i being the first call with that text
SameTextOtherUrl(i, j) ==
    /\ FirstWithText(i)
    /\ hist.classified[j].text = hist.classified[i].text
    /\ hist.classified[j].raw.source_url # hist.classified[i].raw.source_url

\* the id that the records of a call are derived from
CounterId(call, country) ==
    <<"t", "p", "d", "-">> \o Lower(country) \o <<"-">> \o Digits(call.deal_counter)

\* the records that a call returned carry the source URL of its candidate
\* and ids derived from its counter
OwnRecords(call) ==
    /\ call.ret.parent # None =>
          LET parent == call.ret.parent.some
          IN  /\ parent.source_url = call.raw.source_url
              /\ \A d \in 1..Len(parent.source_documents) :
                    parent.source_documents[d].url = call.raw.source_url
              /\ parent.id = CounterId(call, parent.country)
    /\ \A c \in 1..Len(call.ret.children) :
          LET child == call.ret.children[c]
          IN  /\ child.source_url = call.raw.source_url
              /\ child.parent_id = Some(CounterId(call, child.country))
              /\ SubSeq(child.id, 1, Len(child.id) - 4) = CounterId(call, child.country)

-----------------------------------------------------------------------------
(* passes_prefilter applied to a candidate, twice: SpecPrefilter           *)

PrefilterRaw(title, snippet) ==
    RawDeal(title, <<"https://", "example.com">>, <<>>, snippet, <<>>, <<>>)

\* the candidates of the tests
PrefilterExamples ==
    {
      PrefilterRaw(<<"J", "a", "p", "a", "n", " ", "A", "I", " ", "P", "a", "r", "t", "n", "e", "r", "s", "h", "i", "p">>,
                   <<>>),
      PrefilterRaw(<<"U", "S", "-", "K", "o", "r", "e", "a", " ", "T", "r", "a", "d", "e", " ", "A", "g", "r", "e", "e", "m", "e", "n", "t">>,
                   <<>>),
      PrefilterRaw(<<"P", "r", "e", "s", "s", " ", "R", "e", "l", "e", "a", "s", "e">>,
                   <<"b", "i", "l", "a", "t", "e", "r", "a", "l", " ", "t", "e", "c", "h", "n", "o", "l", "o", "g", "y", " ", "i", "n", "v", "e", "s", "t", "m", "e", "n", "t", " ", "i", "n", " ", "s", "e", "m", "i", "c", "o", "n", "d", "u", "c", "t", "o", "r", "s">>),
      PrefilterRaw(<<"W", "e", "a", "t", "h", "e", "r", " ", "U", "p", "d", "a", "t", "e">>,
                   <<"s", "u", "n", "n", "y", " ", "s", "k", "i", "e", "s">>),
      PrefilterRaw(<<"W", "e", "a", "t", "h", "e", "r", " ", "U", "p", "d", "a", "t", "e">>,
                   <<"s", "u", "n", "n", "y", " ", "s", "k", "i", "e", "s", " ", "e", "x", "p", "e", "c", "t", "e", "d", " ", "t", "o", "m", "o", "r", "r", "o", "w">>),
      PrefilterRaw(<<"Q", "U", "A", "N", "T", "U", "M", " ", "C", "O", "M", "P", "U", "T", "I", "N", "G", " ", "A", "G", "R", "E", "E", "M", "E", "N", "T">>,
                   <<>>),
      PrefilterRaw(<<"T", "e", "c", "h", "n", "o", "l", "o", "g", "y", " ", "P", "r", "o", "s", "p", "e", "r", "i", "t", "y", " ", "D", "e", "a", "l">>,
                   <<>>),
      PrefilterRaw(<<"K", "o", "r", "e", "a", " ", "s", "e", "m", "i", "c", "o", "n", "d", "u", "c", "t", "o", "r", " ", "i", "n", "v", "e", "s", "t", "m", "e", "n", "t">>,
                   <<>>) }

\* short titles and snippets in which the keywords "AI" and "pact" occur or
\* nearly occur, in either case and across the join of title and snippet
GeneratedTitles == UNION {[1..n -> {"a", "A", "I", "i"}] : n \in 0..MaxTitle}

GeneratedSnippets == { <<>>, <<"i">>, <<"I", " ", "p", "A", "C", "t">>, <<"p", "a", "c">> }

PrefilterInputs ==
    PrefilterExamples \cup ClassifyRaws
        \cup {PrefilterRaw(t, s) : t \in GeneratedTitles, s \in GeneratedSnippets}

InitPrefilter ==
    /\ fs = EmptyFs
    /\ trace = <<>>
    /\ now = StartTime
    /\ _last_request_time = [h \in {} |-> 0]
    /\ pc = "idle"
    /\ \E raw \in PrefilterInputs : frame = [op |-> "passes_prefilter", raw |-> raw]
    /\ ret = None
    /\ obs = NoObs
    /\ calls = 0
    /\ hist = [sent |-> [h \in {} |-> 0], last_send |-> None,
               writer |-> [p \in {} |-> None], parsed |-> <<>>,
               requests |-> 0, html_parses |-> 0, non2xx |-> 0, http_5xx |-> 0,
               api_sent |-> <<>>, classified |-> <<>>]
    /\ classifier = None
    /\ run = NoRun

\* passes_prefilter(raw)
Prefilter ==
    /\ frame.op = "passes_prefilter"
    /\ Len(trace) < 2
    /\ trace' = Append(trace, passes_prefilter(frame.raw))
    /\ UNCHANGED <<fs, now, _last_request_time, pc, frame, ret, obs, calls, hist, classifier,
                   run>>

NextPrefilter == Prefilter

SpecPrefilter == InitPrefilter /\ [][NextPrefilter]_vars

\* two characters are the same letter, in whichever case
SameLetter(c, d) ==
    \/ c = d
    \/ \E k \in 1..Len(UpperCase) :
          {c, d} = {UpperCase[k], LowerCase[k]}

\* the keyword occurs in the text at an offset, whatever the case of the
\* letters
OccursIgnoringCase(text, keyword) ==
    \E off \in 0..(Len(text) - Len(keyword)) :
        \A k \in 1..Len(keyword) : SameLetter(text[off + k], keyword[k])

TitleIs(title) == frame.raw.title = title

\* C29: passes_prefilter(raw) is true exactly when at least one configured
\* keyword occurs, whatever the case of the letters, in title + " " +
\* snippet; it has no state (the same candidate gets the same answer) and
\* touches no file; it is false for "Weather Update" with "sunny skies" and
\* true for "Japan AI Partnership" and "QUANTUM COMPUTING AGREEMENT".
C29_PrefilterIsKeywordSearch ==
    /\ \A n \in 1..Len(trace) :
          trace[n] = ( \E i \in 1..Len(PREFILTER_KEYWORDS) :
                          OccursIgnoringCase(frame.raw.title \o <<" ">> \o frame.raw.snippet,
                                             PREFILTER_KEYWORDS[i]) )
    /\ Len(trace) = 2 => trace[1] = trace[2]
    /\ fs = EmptyFs
    /\ \A n \in 1..Len(trace) :
          /\ ( TitleIs(<<"W", "e", "a", "t", "h", "e", "r", " ", "U", "p", "d", "a", "t", "e">>)
               /\ frame.raw.snippet = <<"s", "u", "n", "n", "y", " ", "s", "k", "i", "e", "s">> ) => trace[n] = FALSE
          /\ TitleIs(<<"J", "a", "p", "a", "n", " ", "A", "I", " ", "P", "a", "r", "t", "n", "e", "r", "s", "h", "i", "p">>) => trace[n] = TRUE
          /\ TitleIs(<<"Q", "U", "A", "N", "T", "U", "M", " ", "C", "O", "M", "P", "U", "T", "I", "N", "G", " ", "A", "G", "R", "E", "E", "M", "E", "N", "T">>) => trace[n] = TRUE

\* the upper-case title of the tests was accepted, twice
C29_Witness ==
    /\ Len(trace) = 2
    /\ TitleIs(<<"Q", "U", "A", "N", "T", "U", "M", " ", "C", "O", "M", "P", "U", "T", "I", "N", "G", " ", "A", "G", "R", "E", "E", "M", "E", "N", "T">>)
    /\ trace[1] = TRUE


-----------------------------------------------------------------------------
(* url_hash and content_hash applied to a string, twice: SpecHash          *)

\* strings of the tests, the empty string, a string that fills more than one
\* block of 64 bytes, and short strings
HashExamples ==
    { <<>>,
      <<"a", "b", "c">>,
      <<"h", "e", "l", "l", "o">>,
      <<"h", "e", "l", "l", "o", " ">>,
      <<"h", "e", "l", "l", "o", " ", "w", "o", "r", "l", "d">>,
      <<"h", "t", "t", "p", "s", ":", "/", "/", "a", ".", "c", "o", "m">>,
      <<"h", "t", "t", "p", "s", ":", "/", "/", "b", ".", "c", "o", "m">>,
      <<"h", "t", "t", "p", "s", ":", "/", "/", "e", "x", "a", "m", "p", "l", "e", ".", "c", "o", "m">>,
      [i \in 1..55 |-> "a"], [i \in 1..56 |-> "a"], [i \in 1..64 |-> "a"] }

HashInputs == HashExamples \cup UNION {[1..n -> {"a", "b", "/", " "}] : n \in 1..MaxHashLen}

InitHash ==
    /\ fs = EmptyFs
    /\ trace = <<>>
    /\ now = StartTime
    /\ _last_request_time = [h \in {} |-> 0]
    /\ pc = "idle"
    /\ \E s \in HashInputs, op \in {"url_hash", "content_hash"} : frame = [op |-> op, s |-> s]
    /\ ret = None
    /\ obs = NoObs
    /\ calls = 0
    /\ hist = [sent |-> [h \in {} |-> 0], last_send |-> None,
               writer |-> [p \in {} |-> None], parsed |-> <<>>,
               requests |-> 0, html_parses |-> 0, non2xx |-> 0, http_5xx |-> 0,
               api_sent |-> <<>>, classified |-> <<>>]
    /\ classifier = None
    /\ run = NoRun

HashUnchanged ==
    UNCHANGED <<fs, now, _last_request_time, pc, frame, ret, obs, calls, hist, classifier, run>>

\* url_hash(s)
UrlHash ==
    /\ frame.op = "url_hash"
    /\ Len(trace) < 2
    /\ trace' = Append(trace, url_hash_hex(frame.s))
    /\ HashUnchanged

\* content_hash(s)
ContentHash ==
    /\ frame.op = "content_hash"
    /\ Len(trace) < 2
    /\ trace' = Append(trace, content_hash_hex(frame.s))
    /\ HashUnchanged

NextHash == UrlHash \/ ContentHash

SpecHash == InitHash /\ [][NextHash]_vars

\* C30: url_hash and content_hash are pure and deterministic: the same input
\* gives the same key each time, the key is a string of exactly 16
\* hexadecimal characters, and the key of the empty string is well defined:
\* it is "e3b0c44298fc1c14", the head of the SHA-256 digest of no bytes.
C30_HashIs16HexDigits ==
    /\ \A n \in 1..Len(trace) :
          /\ Len(trace[n]) = 16
          /\ \A i \in 1..Len(trace[n]) : \E k \in 1..16 : HexChars[k] = trace[n][i]
          /\ frame.s = <<>> =>
                trace[n] = <<"e", "3", "b", "0", "c", "4", "4", "2", "9", "8", "f", "c", "1", "c", "1", "4">>
    /\ Len(trace) = 2 => trace[1] = trace[2]
    /\ fs = EmptyFs

\* url_hash of the empty string was taken twice
C30_Witness ==
    /\ Len(trace) = 2
    /\ frame.op = "url_hash"
    /\ frame.s = <<>>
    /\ trace[2] = <<"e", "3", "b", "0", "c", "4", "4", "2", "9", "8", "f", "c", "1", "c", "1", "4">>



-----------------------------------------------------------------------------
(* title_matches_watchlist applied to a listing title, twice: SpecTitle    *)

\* the titles of the tests
TitleExamples ==
    { <<"T", "e", "c", "h", "n", "o", "l", "o", "g", "y", " ", "P", "r", "o", "s", "p", "e", "r", "i", "t", "y", " ", "D", "e", "a", "l">>,
      <<"T", "e", "c", "h", "n", "o", "l", "o", "g", "y", " ", "P", "r", "o", "s", "p", "e", "r", "i", "t", "y", " ", "D", "e", "a", "l", " ", "A", "n", "n", "o", "u", "n", "c", "e", "d">>,
      <<"U", "S", "-", "J", "a", "p", "a", "n", " ", "S", "u", "m", "m", "i", "t", " ", "J", "o", "i", "n", "t", " ", "S", "t", "a", "t", "e", "m", "e", "n", "t">>,
      <<"J", "a", "p", "a", "n", " ", "A", "I", " ", "f", "r", "a", "m", "e", "w", "o", "r", "k", " ", "a", "g", "r", "e", "e", "m", "e", "n", "t">>,
      <<"U", "K", " ", "q", "u", "a", "n", "t", "u", "m", " ", "c", "o", "m", "p", "u", "t", "i", "n", "g", " ", "p", "a", "r", "t", "n", "e", "r", "s", "h", "i", "p">>,
      <<"S", "o", "u", "t", "h", " ", "K", "o", "r", "e", "a", " ", "s", "e", "m", "i", "c", "o", "n", "d", "u", "c", "t", "o", "r", " ", "i", "n", "v", "e", "s", "t", "m", "e", "n", "t">>,
      <<"K", "o", "r", "e", "a", " ", "M", "O", "U", " ", "o", "n", " ", "t", "e", "c", "h", "n", "o", "l", "o", "g", "y", " ", "c", "o", "o", "p", "e", "r", "a", "t", "i", "o", "n">>,
      <<"J", "a", "p", "a", "n", " ", "w", "e", "a", "t", "h", "e", "r", " ", "f", "o", "r", "e", "c", "a", "s", "t">>,
      <<"U", "K", " ", "s", "p", "o", "r", "t", "s", " ", "r", "e", "s", "u", "l", "t", "s">>,
      <<"N", "e", "w", " ", "A", "I", " ", "r", "e", "g", "u", "l", "a", "t", "i", "o", "n", " ", "i", "n", " ", "E", "u", "r", "o", "p", "e">>,
      <<"S", "e", "m", "i", "c", "o", "n", "d", "u", "c", "t", "o", "r", " ", "s", "h", "o", "r", "t", "a", "g", "e", " ", "c", "o", "n", "t", "i", "n", "u", "e", "s">>,
      <<"J", "A", "P", "A", "N", " ", "T", "E", "C", "H", "N", "O", "L", "O", "G", "Y", " ", "D", "E", "A", "L">>,
      <<"u", "n", "i", "t", "e", "d", " ", "k", "i", "n", "g", "d", "o", "m", " ", "a", "i", " ", "p", "a", "r", "t", "n", "e", "r", "s", "h", "i", "p">>,
      <<"J", "a", "p", "a", "n", " ", "t", "e", "c", "h", "n", "o", "l", "o", "g", "y", " ", "d", "e", "a", "l">>,
      <<"R", "O", "K", " ", "b", "i", "l", "a", "t", "e", "r", "a", "l", " ", "t", "e", "c", "h", "n", "o", "l", "o", "g", "y", " ", "d", "e", "a", "l">>,
      <<"B", "r", "i", "t", "i", "s", "h", " ", "s", "e", "m", "i", "c", "o", "n", "d", "u", "c", "t", "o", "r", " ", "a", "g", "r", "e", "e", "m", "e", "n", "t">>,
      <<"R", "a", "n", "d", "o", "m", " ", "n", "e", "w", "s", " ", "a", "r", "t", "i", "c", "l", "e", " ", "a", "b", "o", "u", "t", " ", "w", "e", "a", "t", "h", "e", "r">>,
      <<"U", "S", " ", "d", "o", "m", "e", "s", "t", "i", "c", " ", "p", "o", "l", "i", "c", "y", " ", "u", "p", "d", "a", "t", "e">> }

\* short titles in which a country name and the keyword "AI" occur or nearly
\* occur, in either case
GeneratedNames ==
    { <<>>, <<"u", "k", " ">>, <<"U", ".", "K", " ">>, <<"J", "p", "n", " ">>, <<"j", "a", "p", "a", " ">>, <<"r", "O", "K">> }

GeneratedWatchTitles == {n \o t : n \in GeneratedNames, t \in GeneratedTitles}

\* the values of --country: absent, empty, watchlist keys, a key in another
\* case, and a country that is not on the watchlist
CountryFilters ==
    { None, Some(<<>>), Some(<<"U", "K">>), Some(<<"J", "a", "p", "a", "n">>),
      Some(<<"S", "o", "u", "t", "h", " ", "K", "o", "r", "e", "a">>),
      Some(<<"j", "a", "p", "a", "n">>), Some(<<"F", "r", "a", "n", "c", "e">>) }

InitTitle ==
    /\ fs = EmptyFs
    /\ trace = <<>>
    /\ now = StartTime
    /\ _last_request_time = [h \in {} |-> 0]
    /\ pc = "idle"
    /\ \E t \in TitleExamples \cup GeneratedWatchTitles, cf \in CountryFilters :
          frame = [op |-> "title_matches_watchlist", title |-> t, country_filter |-> cf]
    /\ ret = None
    /\ obs = NoObs
    /\ calls = 0
    /\ hist = [sent |-> [h \in {} |-> 0], last_send |-> None,
               writer |-> [p \in {} |-> None], parsed |-> <<>>,
               requests |-> 0, html_parses |-> 0, non2xx |-> 0, http_5xx |-> 0,
               api_sent |-> <<>>, classified |-> <<>>]
    /\ classifier = None
    /\ run = NoRun

\* title_matches_watchlist(title, country_filter)
TitleMatches ==
    /\ frame.op = "title_matches_watchlist"
    /\ Len(trace) < 2
    /\ trace' = Append(trace, title_matches_watchlist(frame.title, frame.country_filter))
    /\ UNCHANGED <<fs, now, _last_request_time, pc, frame, ret, obs, calls, hist, classifier,
                   run>>

NextTitle == TitleMatches

SpecTitle == InitTitle /\ [][NextTitle]_vars

ListingTitleIs(title) == frame.op = "title_matches_watchlist" /\ frame.title = title

\* C31: title_matches_watchlist accepts a title that contains the word
\* "prosperity" even when it names no watchlist country ("Technology
\* Prosperity Deal", "Technology Prosperity Deal Announced"), and accepts
\* "US-Japan Summit Joint Statement".
C31_ProsperityAndSummitAccepted ==
    \A n \in 1..Len(trace) :
        /\ ListingTitleIs(<<"T", "e", "c", "h", "n", "o", "l", "o", "g", "y", " ", "P", "r", "o", "s", "p", "e", "r", "i", "t", "y", " ", "D", "e", "a", "l">>) => trace[n] = TRUE
        /\ ListingTitleIs(<<"T", "e", "c", "h", "n", "o", "l", "o", "g", "y", " ", "P", "r", "o", "s", "p", "e", "r", "i", "t", "y", " ", "D", "e", "a", "l", " ", "A", "n", "n", "o", "u", "n", "c", "e", "d">>) => trace[n] = TRUE
        /\ ListingTitleIs(<<"U", "S", "-", "J", "a", "p", "a", "n", " ", "S", "u", "m", "m", "i", "t", " ", "J", "o", "i", "n", "t", " ", "S", "t", "a", "t", "e", "m", "e", "n", "t">>) => trace[n] = TRUE

\* the names of the watchlist countries that count under a country filter
NamesThatCount(country_filter) ==
    LET keys == {COUNTRY_WATCHLIST[i].key : i \in 1..Len(COUNTRY_WATCHLIST)}
        only == country_filter # None /\ country_filter.some \in keys
    IN  UNION { {COUNTRY_WATCHLIST[i].names[k] : k \in 1..Len(COUNTRY_WATCHLIST[i].names)} :
                i \in {j \in 1..Len(COUNTRY_WATCHLIST) :
                          only => COUNTRY_WATCHLIST[j].key = country_filter.some} }

-----------------------------------------------------------------------------
(* Claims about results marked not relevant                                *)

\* the external call of a classify_page call returned a JSON object whose
\* is_tpd is false
MarkedNotRelevant(call) ==
    /\ call.response # None
    /\ _call_api(call.response.some) # None
    /\ _call_api(call.response.some).some[1] = "dict"
    /\ Get(_call_api(call.response.some).some, "is_tpd", <<"true">>) = <<"false">>

\* the external call of a classify_page call returned a JSON object whose
\* is_tpd is true
MarkedRelevant(call) ==
    /\ call.response # None
    /\ _call_api(call.response.some) # None
    /\ _call_api(call.response.some).some[1] = "dict"
    /\ Get(_call_api(call.response.some).some, "is_tpd", <<"false">>) = <<"true">>

\* the call wrote its result to the classification cache and added 1 to
\* new_api_calls and to nothing else
SavedAndCounted(call) ==
    LET cache_file == ClassificationFile(CLASSIFICATION_CACHE_DIR, call.text.some)
    IN  /\ call.outcome = "saved"
        /\ call.after = [call.before EXCEPT !.new_api_calls = @ + 1]
        /\ Exists(fs, cache_file)
        /\ fs[cache_file] = json_dumps(_call_api(call.response.some).some)

\* C33: a parseable response marked not relevant is written to the
\* classification cache and counted in new_api_calls exactly as a relevant
\* one is, and the call returns no records; a later classify_page over the
\* same text is a cache hit that makes no external call and returns no
\* records.
C33_NotRelevantIsCached ==
    \A i \in 1..Len(hist.classified) :
        LET first == hist.classified[i]
        IN  /\ MarkedRelevant(first) => SavedAndCounted(first)
            /\ MarkedNotRelevant(first) =>
                  /\ SavedAndCounted(first)
                  /\ first.ret = Returned(None, <<>>)
                  /\ \A j \in (i + 1)..Len(hist.classified) :
                        LET later == hist.classified[j]
                        IN  later.text = first.text =>
                                /\ later.outcome = "hit"
                                /\ later.response = None
                                /\ later.after = [later.before EXCEPT !.cache_hits = @ + 1]
                                /\ later.result = first.result
                                /\ later.ret = Returned(None, <<>>)

\* a result marked not relevant was saved, and the same text, given to
\* another classifier, was served from the cache with no records
C33_Witness ==
    /\ Len(hist.classified) = 2
    /\ MarkedNotRelevant(hist.classified[1])
    /\ hist.classified[1].outcome = "saved"
    /\ hist.classified[2].text = hist.classified[1].text
    /\ hist.classified[2].outcome = "hit"
    /\ hist.classified[2].ret = Returned(None, <<>>)
    /\ Len(hist.api_sent) = 1


-----------------------------------------------------------------------------
(* Claims about the backoff after the last attempt                         *)

\* C34: fetch_page never sleeps for backoff after its last permitted
\* attempt: when attempt number MAX_RETRIES fails, whether by a 429, a 5xx
\* or a transport error, it returns None at once, so one call performs at
\* most MAX_RETRIES - 1 backoff sleeps.
C34_NoBackoffAfterLastAttempt ==
    Len(obs.backoff) <= MAX_RETRIES - 1

\* what holds: the number of backoff sleeps of a call exceeds MAX_RETRIES - 1
\* only when the last attempt was answered 429; a last attempt that fails by
\* a 5xx or a transport error is followed by no sleep
BackoffAfterLastAttemptOnlyOn429 ==
    /\ Len(obs.backoff) <= MAX_RETRIES
    /\ Len(obs.backoff) = MAX_RETRIES =>
          /\ Len(obs.responses) = MAX_RETRIES
          /\ obs.responses[MAX_RETRIES].kind = "response"
          /\ obs.responses[MAX_RETRIES].status_code = 429
          /\ obs.backoff[MAX_RETRIES] = BACKOFF_START_SECONDS * 4


-----------------------------------------------------------------------------
(* Claims about fetches that end without content                           *)

\* the call that has just returned was a fetch that ended without content
EndedWithoutContent ==
    /\ pc = "idle"
    /\ obs.op \in {"fetch_page", "fetch_and_extract"}
    /\ ret = None

\* C35: a fetch that ends without content (404, another 4xx, or retries
\* exhausted) writes nothing to any cache namespace: no step of the call
\* changes a file, fetch_and_extract returns None without writing the
\* extracted text, and the next fetch_page for the same key misses the cache
\* and goes to the network again.
C35_FailuresNotCached ==
    /\ [](EndedWithoutContent =>
             /\ obs.page_writes = 0
             /\ obs.text_writes = 0
             /\ obs.parses = 0
             /\ obs.requests >= 1
             /\ ~Exists(fs, PageFile(PAGE_CACHE_DIR, obs.request.url))
             /\ ~Exists(fs, ExtractedFile(obs.request.url)))
    /\ [][ /\ (pc # "idle" /\ pc' # "idle") => fs' = fs
           /\ (pc # "idle" /\ pc' = "idle" /\ ret' = None) => fs' = fs
           /\ ( /\ EndedWithoutContent
                /\ calls' = calls + 1
                /\ obs'.op = "fetch_page"
                /\ obs'.request = obs.request )
                  => ( pc' = "send" /\ ~obs'.hit /\ fs' = fs )
           /\ (pc = "send" /\ pc' # "send") => hist'.requests = hist.requests + 1
         ]_vars

\* two calls ended without content, the first after MAX_RETRIES attempts and
\* the second, which went to the network again, on a 404; no file exists
C35_Witness ==
    /\ EndedWithoutContent
    /\ calls = 2
    /\ hist.requests = MAX_RETRIES + 1
    /\ obs.requests = 1
    /\ obs.responses[1].status_code = 404
    /\ fs = EmptyFs


-----------------------------------------------------------------------------
(* Claims about the counters of a classifier                               *)

CounterSum(stats) == stats.prefilter_skipped + stats.cache_hits + stats.new_api_calls

\* the classify_page calls, up to the i-th, of the classifier of the i-th
CallsBefore(i) ==
    {k \in 1..(i - 1) : hist.classified[k].classifier = hist.classified[i].classifier}

LastOf(calls_made) == CHOOSE k \in calls_made : \A l \in calls_made : l <= k

\* C36: each classify_page call adds exactly 1 to at most one of the counters
\* prefilter_skipped, cache_hits and new_api_calls and decreases none; the
\* counters change only in these calls; after n calls of a classifier the sum
\* of the three is n less the number of calls that ended in a failed external
\* call, so at most n, and exactly n when there was no such call.
C36_OneCounterPerCall ==
    /\ \A i \in 1..Len(hist.classified) :
          LET call == hist.classified[i]
              failed == {k \in CallsBefore(i) \cup {i} : hist.classified[k].outcome = "failed"}
          IN  /\ call.after \in { call.before,
                                  [call.before EXCEPT !.prefilter_skipped = @ + 1],
                                  [call.before EXCEPT !.cache_hits = @ + 1],
                                  [call.before EXCEPT !.new_api_calls = @ + 1] }
              /\ (call.after = call.before) = (call.outcome = "failed")
              /\ call.before = IF CallsBefore(i) = {}
                               THEN [prefilter_skipped |-> 0, cache_hits |-> 0, new_api_calls |-> 0]
                               ELSE hist.classified[LastOf(CallsBefore(i))].after
              /\ CounterSum(call.after) = Cardinality(CallsBefore(i)) + 1 - Cardinality(failed)
              /\ CounterSum(call.after) <= Cardinality(CallsBefore(i)) + 1
    /\ classifier # None =>
          LET own == {k \in 1..Len(hist.classified) :
                         hist.classified[k].classifier = classifier.some.id}
          IN  classifier.some.stats =
                  IF own = {} THEN [prefilter_skipped |-> 0, cache_hits |-> 0, new_api_calls |-> 0]
                  ELSE hist.classified[LastOf(own)].after

\* one classifier made two calls over the same text: the external call of
\* the first failed, the second was a new call; the sum of its counters is 1
C36_Witness ==
    /\ Len(hist.classified) = 2
    /\ classifier # None
    /\ \A i \in 1..2 : hist.classified[i].classifier = classifier.some.id
    /\ hist.classified[1].outcome = "failed"
    /\ hist.classified[2].outcome = "saved"
    /\ hist.classified[2].text = hist.classified[1].text
    /\ CounterSum(classifier.some.stats) = 1


-----------------------------------------------------------------------------
(* Claims about the count of new calls of a run                            *)

\* the external calls issued during the current run
ExternalCallsOfRun == Len(hist.api_sent) - run.base.api_calls

\* C37: at the end of a run new_api_calls equals the number of external AI
\* calls actually issued during the run, calls whose response could not be
\* used included.
C37_NewCallsCountEveryExternalCall ==
    run.phase = "done" =>
        run.output.some.cost_optimization.new_api_calls = ExternalCallsOfRun

\* what holds: new_api_calls is the number of external calls of the run that
\* returned a result, and the calls that returned none are the difference
NewCallsCountReturnedResults ==
    run.phase = "done" =>
        /\ run.output.some.cost_optimization.new_api_calls =
              Cardinality({i \in CallsOfRun : hist.classified[i].outcome = "saved"})
        /\ ExternalCallsOfRun - run.output.some.cost_optimization.new_api_calls =
              Cardinality({i \in CallsOfRun : hist.classified[i].outcome = "failed"})


-----------------------------------------------------------------------------
(* Claims about the parents of a run                                       *)

\* the positions of the parent records for a country in a list of records
ParentsFor(deals, country) ==
    {i \in 1..Len(deals) : deals[i].parent_id = None /\ deals[i].country = country}

\* the step is the end of one iteration of the classification loop in which
\* classify_page returned a parent
ParentReturned ==
    /\ run.phase = "classified"
    /\ run'.phase = "classify"
    /\ ~ret.raised
    /\ ret.parent # None

\* C38: the items of a run's output contain at most one parent record per
\* country: the first parent produced for a country is kept, and a later
\* parent for the same country is not added but has its source documents
\* appended to the kept parent, whose other fields stay unchanged.
C38_OneParentPerCountry ==
    /\ [](\A i \in 1..Len(run.all_deals) :
              Cardinality(ParentsFor(run.all_deals, run.all_deals[i].country)) <= 1)
    /\ [](run.output # None =>
              /\ Items = run.all_deals
              /\ \A i, j \in 1..Len(Items) :
                    ( /\ Items[i].parent_id = None /\ Items[j].parent_id = None
                      /\ Items[i].country = Items[j].country ) => i = j)
    /\ [][ ParentReturned =>
              LET parent == ret.parent.some
                  kept == ParentsFor(run.all_deals, parent.country)
                  n == Len(run.all_deals)
              IN  IF kept = {}
                  THEN /\ Len(run'.all_deals) = n + 1 + Len(ret.children)
                       /\ run'.all_deals[n + 1] = parent
                       /\ SubSeq(run'.all_deals, 1, n) = run.all_deals
                  ELSE /\ Len(run'.all_deals) = n + Len(ret.children)
                       /\ \A i \in 1..n :
                             IF i \in kept
                             THEN /\ run'.all_deals[i].source_documents =
                                        run.all_deals[i].source_documents \o parent.source_documents
                                  /\ \A f \in (DOMAIN run.all_deals[i]) \ {"source_documents"} :
                                        run'.all_deals[i][f] = run.all_deals[i][f]
                             ELSE run'.all_deals[i] = run.all_deals[i]
                       /\ \A i \in 1..Len(run'.all_deals) : run'.all_deals[i].id # parent.id
         ]_vars

\* the output holds one parent for the Republic of Korea, made for the first
\* candidate, with the source documents of two candidates of different URLs
C38_Witness ==
    /\ run.output # None
    /\ \E i \in 1..Len(Items) :
          /\ Items[i].parent_id = None
          /\ Items[i].id = <<"t", "p", "d", "-", "k", "o", "r", "-", "1">>
          /\ Len(Items[i].source_documents) = 2
          /\ Items[i].source_documents[1].url = KoreaUrl
          /\ Items[i].source_documents[2].url = JapanUrl
          /\ Items[i].source_url = KoreaUrl


-----------------------------------------------------------------------------
(* Claims about --clear-cache                                              *)

\* the cache entries of a namespace: the files directly in its directory
CacheEntries(files, cache_dir) == {p \in DOMAIN files : Len(p) = 3 /\ p[1] = cache_dir}

\* the step in which main() passes from the fetch phase to the
\* classification loop
FetchPhaseEnds == run.phase = "scraped" /\ run'.phase = "classify"

\* the i-th classify_page call is the first of the current run that sends
\* its text
FirstOfRunWithText(i) ==
    /\ i \in CallsOfRun
    /\ hist.classified[i].text # None
    /\ \A k \in CallsOfRun : k < i => hist.classified[k].text # hist.classified[i].text

\* C39: --clear-cache wipes only the classification namespace, once, after
\* the fetch phase and before the first candidate is classified: the entries
\* of the page cache and of the extracted texts are unchanged by it, no
\* other step of the run removes a cache entry, and in that run the first
\* classification of each distinct text that passes the pre-filter is a
\* cache miss.
C39_ClearCacheWipesClassifications ==
    /\ [][ /\ ( FetchPhaseEnds /\ run.args.some.clear_cache ) =>
                /\ CacheEntries(fs', CLASSIFICATION_CACHE_DIR) = {}
                /\ \A d \in {PAGE_CACHE_DIR, EXTRACTED_CACHE_DIR} :
                      /\ CacheEntries(fs', d) = CacheEntries(fs, d)
                      /\ \A p \in CacheEntries(fs, d) : fs'[p] = fs[p]
                /\ Len(hist.classified) = run.base.classified
                /\ run'.idx = 1
           /\ ( FetchPhaseEnds /\ ~run.args.some.clear_cache ) => fs' = fs
           /\ ~FetchPhaseEnds =>
                \A d \in {PAGE_CACHE_DIR, EXTRACTED_CACHE_DIR, CLASSIFICATION_CACHE_DIR} :
                    CacheEntries(fs, d) \subseteq CacheEntries(fs', d)
         ]_vars
    /\ []( ( run.args # None /\ run.args.some.clear_cache ) =>
              \A i \in 1..Len(hist.classified) :
                  FirstOfRunWithText(i) => hist.classified[i].outcome \in {"saved", "failed"} )

\* the second run, with --clear-cache, classified anew, by an external call,
\* the text that the first run had classified and cached; the page and the
\* extracted text of the first run are still there
C39_Witness ==
    /\ run.n = 2
    /\ run.phase = "done"
    /\ run.args.some.clear_cache
    /\ \E i \in 1..run.base.classified : \E j \in CallsOfRun :
          /\ hist.classified[i].outcome = "saved"
          /\ hist.classified[j].outcome = "saved"
          /\ hist.classified[j].text = hist.classified[i].text
    /\ CacheEntries(fs, PAGE_CACHE_DIR) # {}
    /\ CacheEntries(fs, EXTRACTED_CACHE_DIR) # {}


-----------------------------------------------------------------------------
(* main() over all sources, a scrape returning or raising: SpecSources     *)

\* the candidate that a source returns
SourceRaw(source_name) ==
    RawDeal(<<"K", "o", "r", "e", "a", " ", "d", "e", "a", "l", " ">> \o source_name,
            <<"https://", "a.gov", "/">> \o source_name, <<>>, <<>>, <<>>, source_name)

\* what scraper.scrape() does: it raises, or returns no candidate or one
ScrapeOutcomes(source_name) ==
    { [raised |-> TRUE, raw |-> <<>>],
      [raised |-> FALSE, raw |-> <<>>],
      [raised |-> FALSE, raw |-> <<SourceRaw(source_name)>>] }

SourcesApiResponses == { Message(<<JsonLine(RelevantResult)>>), Message(<<ProseLine>>) }

\* main() with no --source, at the start of the fetch phase
InitSources ==
    /\ fs = EmptyFs
    /\ trace = <<>>
    /\ now = StartTime
    /\ _last_request_time = [h \in {} |-> 0]
    /\ pc = "idle"
    /\ frame = IdleFrame
    /\ ret = None
    /\ obs = NoObs
    /\ calls = 0
    /\ hist = [sent |-> [h \in {} |-> 0], last_send |-> None,
               writer |-> [p \in {} |-> None], parsed |-> <<>>,
               requests |-> 0, html_parses |-> 0, non2xx |-> 0, http_5xx |-> 0,
               api_sent |-> <<>>, classified |-> <<>>]
    /\ classifier = None
    /\ run = [NoRun EXCEPT !.n = 1, !.phase = "fetch", !.source_idx = 1,
                           !.args = Some([country |-> None, api_key |-> TRUE,
                                          clear_cache |-> FALSE])]

\* the scrape of the next source and what main() does with its outcome
ScrapeSource(outcome) ==
    /\ pc = "idle"
    /\ run.phase = "fetch"
    /\ run' = AfterScrape(run, scraper_classes[run.source_idx], outcome)
    /\ trace' = Append(trace, [op |-> "scrape", source |-> scraper_classes[run.source_idx],
                               raised |-> outcome.raised, raw |-> outcome.raw])
    /\ UNCHANGED <<fs, now, _last_request_time, pc, frame, ret, obs, calls, hist, classifier>>

NextSources ==
    \/ (run.phase = "fetch" /\
           \E outcome \in ScrapeOutcomes(scraper_classes[run.source_idx]) : ScrapeSource(outcome))
    \/ StartClassification
    \/ ClassifyNext
    \/ \E response \in SourcesApiResponses : ApiReturns(response)
    \/ ClassifyDone
    \/ Finish

SpecSources == InitSources /\ [][NextSources]_vars

\* the sources whose scrape raised, and those whose scrape returned
Failed == {trace[i].source : i \in {k \in 1..Len(trace) : trace[k].raised}}
Succeeded == {trace[i].source : i \in {k \in 1..Len(trace) : ~trace[k].raised}}

Range(seq) == {seq[i] : i \in 1..Len(seq)}

\* C40: an exception raised by one source's scrape does not abort the run:
\* it is recorded in the error list, that source is left out of
\* sources_scraped and contributes no candidates, its scraper is still
\* closed, and the remaining sources are scraped and their candidates
\* classified.
C40_ScrapeFailureConfined ==
    /\ \A s \in Failed :
          /\ \E e \in 1..Len(run.errors) : run.errors[e].source = s
          /\ s \notin Range(run.sources_scraped)
          /\ \A d \in 1..Len(run.all_raw_deals) : run.all_raw_deals[d].source_name # s
    /\ Range(run.sources_scraped) = Succeeded
    /\ \A i \in 1..Len(trace) : ~trace[i].raised =>
          \A d \in 1..Len(trace[i].raw) : trace[i].raw[d] \in Range(run.all_raw_deals)
    /\ run.closed = [i \in 1..Len(trace) |-> trace[i].source]
    /\ run.phase = "fetch" => Len(trace) = run.source_idx - 1
    /\ run.phase # "fetch" =>
          [i \in 1..Len(trace) |-> trace[i].source] = scraper_classes
    /\ run.phase = "done" =>
          /\ run.output.some.sources_scraped = run.sources_scraped
          /\ \A s \in Failed : \E e \in 1..Len(run.output.some.errors) :
                run.output.some.errors[e].source = s
          /\ \A d \in 1..Len(run.all_raw_deals) :
                \E i \in CallsOfRun : hist.classified[i].raw = run.all_raw_deals[d]

\* the run ended with an output: the scrape of the second source raised, the
\* first and the third returned a candidate each, and both were classified
C40_Witness ==
    /\ run.phase = "done"
    /\ trace[2].raised
    /\ ~trace[1].raised /\ trace[1].raw # <<>>
    /\ ~trace[3].raised /\ trace[3].raw # <<>>
    /\ run.closed = scraper_classes
    /\ Len(hist.classified) >= 2
    /\ Len(run.output.some.items) > 0

====
